---- MODULE Spec2Model ----
(***************************************************************************)
(* Wire-list extraction of mcp-schematics-wirelist-server                  *)
(* (src/servers/mcp-schematics-wirelist-server/src/extraction.ts):         *)
(* the wire graph builder and resolver, the page worker pool, the retry    *)
(* loop of the recognition call and the page classification.               *)
(***************************************************************************)
EXTENDS Integers, Sequences, FiniteSets, TLC

(***************************************************************************)
(* Strings.  Labels are TLA+ strings; the JavaScript string built-ins the  *)
(* code uses are defined character by character.                           *)
(***************************************************************************)

\* `foglio?: number` (and any optional number) that is absent
Undefined == -1

\* the characters of the labels, in UTF-16 code order (Array.prototype.sort)
Alphabet == " +,-./0123456789:@ABCDEFGHIJKLMNOPQRSTUVWXYZ_abcdefghijklmnopqrstuvwxyz|"
Uppers == "ABCDEFGHIJKLMNOPQRSTUVWXYZ"
Lowers == "abcdefghijklmnopqrstuvwxyz"
Digits == "0123456789"

\* s[i-1] of JavaScript, "" out of range
CharAt(s, i) == IF 1 <= i /\ i <= Len(s) THEN SubSeq(s, i, i) ELSE ""

RECURSIVE IndexFrom(_, _, _)
\* 1-based position of character c in s at or after i, 0 when absent
IndexFrom(s, c, i) ==
  IF i > Len(s) THEN 0
  ELSE IF CharAt(s, i) = c THEN i
  ELSE IndexFrom(s, c, i + 1)

IndexOfChar(s, c) == IndexFrom(s, c, 1)

\* the characters of a string
CharsOf(s) == {CharAt(s, i) : i \in 1..Len(s)}

DigitSet == CharsOf(Digits)
UpperSet == CharsOf(Uppers)
LowerSet == CharsOf(Lowers)

\* character tables: lower case, upper case, digit value, code order
LowerTable == [c \in UpperSet |-> CharAt(Lowers, IndexOfChar(Uppers, c))]
UpperTable == [c \in LowerSet |-> CharAt(Uppers, IndexOfChar(Lowers, c))]
DigitTable == [c \in DigitSet |-> IndexOfChar(Digits, c) - 1]
CodeTable == [c \in CharsOf(Alphabet) |-> IndexOfChar(Alphabet, c)]

\* \d of a regular expression
IsDigit(c) == c \in DigitSet
\* \s of a regular expression, and the characters trim() removes
IsSpace(c) == c = " "

\* String.prototype.toLowerCase, one character
LowerChar(c) == IF c \in UpperSet THEN LowerTable[c] ELSE c

\* String.prototype.toUpperCase, one character
UpperChar(c) == IF c \in LowerSet THEN UpperTable[c] ELSE c

RECURSIVE ToLowerCase(_)
ToLowerCase(s) ==
  IF Len(s) = 0 THEN "" ELSE LowerChar(CharAt(s, 1)) \o ToLowerCase(SubSeq(s, 2, Len(s)))

RECURSIVE ToUpperCase(_)
ToUpperCase(s) ==
  IF Len(s) = 0 THEN "" ELSE UpperChar(CharAt(s, 1)) \o ToUpperCase(SubSeq(s, 2, Len(s)))

RECURSIVE TrimStart(_)
TrimStart(s) ==
  IF Len(s) > 0 /\ IsSpace(CharAt(s, 1)) THEN TrimStart(SubSeq(s, 2, Len(s))) ELSE s

RECURSIVE TrimEnd(_)
TrimEnd(s) ==
  IF Len(s) > 0 /\ IsSpace(CharAt(s, Len(s))) THEN TrimEnd(SubSeq(s, 1, Len(s) - 1)) ELSE s

\* String.prototype.trim
Trim(s) == TrimEnd(TrimStart(s))

\* String.prototype.startsWith
StartsWith(s, p) == Len(s) >= Len(p) /\ SubSeq(s, 1, Len(p)) = p

\* String.prototype.includes
Includes(s, p) == \E i \in 1..(Len(s) - Len(p) + 1) : SubSeq(s, i, i + Len(p) - 1) = p

RECURSIVE DigitRunEnd(_, _)
\* the position after the longest run of digits of s that starts at i
DigitRunEnd(s, i) ==
  IF i <= Len(s) /\ IsDigit(CharAt(s, i)) THEN DigitRunEnd(s, i + 1) ELSE i

RECURSIVE SpaceRunEnd(_, _)
\* the position after the longest run of whitespace of s that starts at i
SpaceRunEnd(s, i) ==
  IF i <= Len(s) /\ IsSpace(CharAt(s, i)) THEN SpaceRunEnd(s, i + 1) ELSE i

RECURSIVE ParseInt(_)
\* parseInt(s, 10) of a string of digits
ParseInt(s) ==
  IF Len(s) = 0 THEN 0
  ELSE 10 * ParseInt(SubSeq(s, 1, Len(s) - 1)) + DigitTable[CharAt(s, Len(s))]

RECURSIVE NumToString(_)
\* String(n) of a non-negative integer
NumToString(n) ==
  IF n < 10 THEN CharAt(Digits, n + 1)
  ELSE NumToString(n \div 10) \o CharAt(Digits, (n % 10) + 1)

RECURSIVE StrLess(_, _)
\* a < b in UTF-16 code unit order, the order of Array.prototype.sort
StrLess(a, b) ==
  IF Len(b) = 0 THEN FALSE
  ELSE IF Len(a) = 0 THEN TRUE
  ELSE LET ca == CodeTable[CharAt(a, 1)]
           cb == CodeTable[CharAt(b, 1)]
       IN IF ca # cb THEN ca < cb
          ELSE StrLess(SubSeq(a, 2, Len(a)), SubSeq(b, 2, Len(b)))

\* the elements of a sequence
Range(seq) == {seq[i] : i \in 1..Len(seq)}

\* Set.prototype.add on a Set kept in insertion order
SetAdd(seq, x) == IF x \in Range(seq) THEN seq ELSE Append(seq, x)

RECURSIVE SetAddAll(_, _)
SetAddAll(seq, xs) ==
  IF Len(xs) = 0 THEN seq ELSE SetAddAll(SetAdd(seq, Head(xs)), Tail(xs))

(***************************************************************************)
(* Endpoint classification and reference naming                            *)
(***************************************************************************)

\* /^-?x\d+[.:]/ and /^-?xt\d+[.:]/ on a lower-cased label
IsTerminalLabel(t) ==
  LET a == IF StartsWith(t, "-") THEN 2 ELSE 1
      b == IF CharAt(t, a) = "x"
           THEN (IF CharAt(t, a + 1) = "t" THEN a + 2 ELSE a + 1)
           ELSE 0
      e == IF b = 0 THEN 0 ELSE DigitRunEnd(t, b)
  IN /\ a <= Len(t)
     /\ b > 0
     /\ e > b
     /\ e <= Len(t)
     /\ CharAt(t, e) \in {".", ":"}

classifyEndpoint(endpoint) ==
  LET trimmed == ToLowerCase(Trim(endpoint))
  IN IF StartsWith(trimmed, "rimando") THEN "reference"
     ELSE IF IsTerminalLabel(trimmed) THEN "terminal"
     ELSE "component"

\* the match of /^rimando\s+(\d+)\.?\d*$/i : <<matched, group 1>>
RimandoMatch(endpoint) ==
  LET s  == SpaceRunEnd(endpoint, 8)
      d  == DigitRunEnd(endpoint, s)
      p  == IF d <= Len(endpoint) /\ CharAt(endpoint, d) = "." THEN d + 1 ELSE d
      e  == DigitRunEnd(endpoint, p)
      ok == /\ Len(endpoint) >= 9
            /\ ToLowerCase(SubSeq(endpoint, 1, 7)) = "rimando"
            /\ s > 8
            /\ d > s
            /\ e = Len(endpoint) + 1
  IN <<ok, IF ok THEN SubSeq(endpoint, s, d - 1) ELSE "">>

normalizeRimando(endpoint) ==
  LET m == RimandoMatch(endpoint)
  IN IF m[1] THEN "rimando " \o m[2] ELSE endpoint

\* /^rimando\s+\d+$/i
IsPlainRimando(endpoint) ==
  LET s == SpaceRunEnd(endpoint, 8)
      d == DigitRunEnd(endpoint, s)
  IN /\ Len(endpoint) >= 9
     /\ ToLowerCase(SubSeq(endpoint, 1, 7)) = "rimando"
     /\ s > 8
     /\ d > s
     /\ d = Len(endpoint) + 1

\* makeRimandoUnique without the emitting sheet: every sheet shares one node
makeRimandoShared(endpoint, foglio) == endpoint

makeRimandoUnique(endpoint, foglio) ==
  IF foglio # Undefined /\ IsPlainRimando(endpoint)
  THEN endpoint \o "@" \o NumToString(foglio)
  ELSE endpoint

(***************************************************************************)
(* buildWireGraph.  A Map is a sequence in insertion order; the graphs are *)
(* records [id, nodes, edges], nodes and edges the arrays of the code.     *)
(***************************************************************************)

\* the index of the graph of wire identifier id, 0 when there is none
GraphIndex(graphs, id) ==
  IF \E i \in 1..Len(graphs) : graphs[i].id = id
  THEN CHOOSE i \in 1..Len(graphs) : graphs[i].id = id
  ELSE 0

\* the node buildWireGraph pushes for one endpoint of a wire
EndpointNode(endpoint, wire) ==
  LET normalized == normalizeRimando(Trim(endpoint))
  IN [name   |-> makeRimandoUnique(normalized, wire.foglio),
      type   |-> classifyEndpoint(normalized),
      page   |-> wire.page,
      foglio |-> wire.foglio]

\* one iteration of the loop over the wires
AddSegment(graphs, wire) ==
  LET id == Trim(wire.id)
      gs == IF GraphIndex(graphs, id) = 0
            THEN Append(graphs, [id |-> id, nodes |-> <<>>, edges |-> <<>>])
            ELSE graphs
      k  == GraphIndex(gs, id)
      g  == gs[k]
      n1 == IF wire.from # "" THEN <<EndpointNode(wire.from, wire)>> ELSE <<>>
      n2 == IF wire.to # "" THEN <<EndpointNode(wire.to, wire)>> ELSE <<>>
      e  == IF wire.from # "" /\ wire.to # ""
            THEN <<[from |-> makeRimandoUnique(normalizeRimando(Trim(wire.from)), wire.foglio),
                    to   |-> makeRimandoUnique(normalizeRimando(Trim(wire.to)), wire.foglio),
                    page |-> wire.page]>>
            ELSE <<>>
  IN IF id = "" THEN graphs
     ELSE [gs EXCEPT ![k] = [id    |-> g.id,
                             nodes |-> g.nodes \o n1 \o n2,
                             edges |-> g.edges \o e]]

RECURSIVE SegmentGraphs(_, _)
\* the loop over the wires: the graphs before the cross-sheet linking
SegmentGraphs(graphs, wires) ==
  IF Len(wires) = 0 THEN graphs
  ELSE SegmentGraphs(AddSegment(graphs, Head(wires)), Tail(wires))

\* the match of /^rimando\s+(\d+)@(\d+)$/i : <<matched, target, source>>
RimandoAtMatch(name) ==
  LET s  == SpaceRunEnd(name, 8)
      d  == DigitRunEnd(name, s)
      e  == DigitRunEnd(name, d + 1)
      ok == /\ Len(name) >= 11
            /\ ToLowerCase(SubSeq(name, 1, 7)) = "rimando"
            /\ s > 8
            /\ d > s
            /\ CharAt(name, d) = "@"
            /\ e > d + 1
            /\ e = Len(name) + 1
  IN IF ok THEN <<TRUE, ParseInt(SubSeq(name, s, d - 1)), ParseInt(SubSeq(name, d + 1, Len(name)))>>
     ELSE <<FALSE, 0, 0>>

\* the entry of rimandoByTargetFoglio a node gives rise to, if any
RimandoEntry(node) ==
  LET m == RimandoAtMatch(node.name)
  IN IF node.type # "reference" THEN <<>>
     ELSE IF m[1]
     THEN <<[target |-> m[2], nodeName |-> node.name, sourceFoglio |-> m[3]]>>
     ELSE IF IsPlainRimando(node.name)
     THEN <<[target |-> ParseInt(SubSeq(node.name, SpaceRunEnd(node.name, 8), Len(node.name))),
             nodeName |-> node.name, sourceFoglio |-> node.foglio]>>
     ELSE <<>>

RECURSIVE RimandoEntries(_)
\* rimandoByTargetFoglio as the list of its entries, in node order
RimandoEntries(nodes) ==
  IF Len(nodes) = 0 THEN <<>>
  ELSE RimandoEntry(Head(nodes)) \o RimandoEntries(Tail(nodes))

RECURSIVE TargetKeys(_, _)
\* the keys of rimandoByTargetFoglio in insertion order
TargetKeys(entries, keys) ==
  IF Len(entries) = 0 THEN keys
  ELSE TargetKeys(Tail(entries), SetAdd(keys, Head(entries).target))

\* a linking that joins a rimando to every rimando of the sheet it came from,
\* whether or not that one points back
ReverseEdgesAll(rimando, targetFoglio, reverseRimandos) ==
  [i \in 1..Len(reverseRimandos) |->
     [from |-> rimando.nodeName, to |-> reverseRimandos[i].nodeName, page |-> Undefined]]

RECURSIVE ReverseEdges(_, _, _)
\* the edges pushed for one rimando: one per reverse rimando that points back
ReverseEdges(rimando, targetFoglio, reverseRimandos) ==
  IF Len(reverseRimandos) = 0 THEN <<>>
  ELSE (IF Head(reverseRimandos).sourceFoglio = targetFoglio
        THEN <<[from |-> rimando.nodeName, to |-> Head(reverseRimandos).nodeName, page |-> Undefined]>>
        ELSE <<>>)
       \o ReverseEdges(rimando, targetFoglio, Tail(reverseRimandos))

RECURSIVE LinkEdgesOfKey(_, _, _)
\* the loop over the rimandi of one target foglio
LinkEdgesOfKey(rimandos, targetFoglio, entries) ==
  IF Len(rimandos) = 0 THEN <<>>
  ELSE LET rimando == Head(rimandos)
           reverseRimandos == SelectSeq(entries, LAMBDA x : x.target = rimando.sourceFoglio)
       IN (IF rimando.sourceFoglio = Undefined THEN <<>>
           ELSE ReverseEdges(rimando, targetFoglio, reverseRimandos))
          \o LinkEdgesOfKey(Tail(rimandos), targetFoglio, entries)

RECURSIVE LinkEdgesOfKeys(_, _)
LinkEdgesOfKeys(keys, entries) ==
  IF Len(keys) = 0 THEN <<>>
  ELSE LinkEdgesOfKey(SelectSeq(entries, LAMBDA x : x.target = Head(keys)), Head(keys), entries)
       \o LinkEdgesOfKeys(Tail(keys), entries)

\* the cross-sheet edges added to one graph
LinkEdges(graph) ==
  LET entries == RimandoEntries(graph.nodes)
  IN LinkEdgesOfKeys(TargetKeys(entries, <<>>), entries)

\* a builder that adds no cross-sheet edge
LinkGraphNone(graph) == graph

\* the post-processing of one graph
LinkGraph(graph) ==
  [id |-> graph.id, nodes |-> graph.nodes, edges |-> graph.edges \o LinkEdges(graph)]

buildWireGraph(wires) ==
  LET graphs == SegmentGraphs(<<>>, wires)
  IN [i \in 1..Len(graphs) |-> LinkGraph(graphs[i])]

(***************************************************************************)
(* resolveWireConnections                                                  *)
(***************************************************************************)

\* a WireRecord; an absent string is "", an absent number is Undefined,
\* panel is the _panel tag set before normalization
WireRecord(id, from, to, page, foglio) ==
  [id |-> id, from |-> from, to |-> to, cable |-> "", gauge |-> "", color |-> "",
   length_mm |-> Undefined, terminal_a |-> "", terminal_b |-> "", note |-> "",
   page |-> page, foglio |-> foglio, panel |-> FALSE]

RECURSIVE AdjacencyOf(_, _, _)
\* adj.get(name): the neighbours of a node, in the order the edges add them
AdjacencyOf(edges, name, acc) ==
  IF Len(edges) = 0 THEN acc
  ELSE LET e  == Head(edges)
           a1 == IF e.from = name THEN SetAdd(acc, e.to) ELSE acc
           a2 == IF e.to = name THEN SetAdd(a1, e.from) ELSE a1
       IN AdjacencyOf(Tail(edges), name, a2)

RECURSIVE BfsLoop(_, _, _, _, _, _)
\* the while loop of bfsReachableRealNodes
BfsLoop(edges, start, realNodes, queue, visited, reachable) ==
  IF Len(queue) = 0 THEN reachable
  ELSE LET current == Head(queue)
           rest    == Tail(queue)
       IN IF current \in visited
          THEN BfsLoop(edges, start, realNodes, rest, visited, reachable)
          ELSE IF current \in Range(realNodes) /\ current # start
          THEN BfsLoop(edges, start, realNodes, rest, visited \cup {current},
                       SetAdd(reachable, current))
          ELSE BfsLoop(edges, start, realNodes,
                       rest \o SelectSeq(AdjacencyOf(edges, current, <<>>),
                                         LAMBDA n : n \notin (visited \cup {current})),
                       visited \cup {current}, reachable)

RECURSIVE BfsClassicLoop(_, _, _, _, _, _)
\* the loop of a classic BFS, which walks on through the real nodes it reaches
BfsClassicLoop(edges, start, realNodes, queue, visited, reachable) ==
  IF Len(queue) = 0 THEN reachable
  ELSE LET current == Head(queue)
           rest    == Tail(queue)
       IN IF current \in visited
          THEN BfsClassicLoop(edges, start, realNodes, rest, visited, reachable)
          ELSE BfsClassicLoop(edges, start, realNodes,
                       rest \o SelectSeq(AdjacencyOf(edges, current, <<>>),
                                         LAMBDA n : n \notin (visited \cup {current})),
                       visited \cup {current},
                       IF current \in Range(realNodes) /\ current # start
                       THEN SetAdd(reachable, current) ELSE reachable)

bfsClassic(edges, start, realNodes) ==
  BfsClassicLoop(edges, start, realNodes, <<start>>, {}, <<>>)

bfsReachableRealNodes(edges, start, realNodes) ==
  BfsLoop(edges, start, realNodes, <<start>>, {}, <<>>)

RECURSIVE AllNodesOf(_, _)
\* a set of endpoints that takes the reference nodes too
AllNodesOf(nodes, acc) ==
  IF Len(nodes) = 0 THEN acc
  ELSE AllNodesOf(Tail(nodes), SetAdd(acc, Head(nodes).name))

RECURSIVE RealNodesOf(_, _)
\* realNodesSet: the names of the nodes that are not references
RealNodesOf(nodes, acc) ==
  IF Len(nodes) = 0 THEN acc
  ELSE RealNodesOf(Tail(nodes),
                   IF Head(nodes).type # "reference" THEN SetAdd(acc, Head(nodes).name) ELSE acc)

\* nodePageMap.get(name): the page of the first real node of that name that has one
NodePage(nodes, name) ==
  LET hits == SelectSeq(nodes, LAMBDA n : n.type # "reference" /\ n.name = name /\ n.page # Undefined)
  IN IF Len(hits) = 0 THEN Undefined ELSE hits[1].page

\* the key without the sort: A->B and B->A get different keys
PairKeyUnsorted(start, end) == start \o "|" \o end

\* [start, end].sort().join('|')
PairKey(start, end) ==
  IF StrLess(end, start) THEN end \o "|" \o start ELSE start \o "|" \o end

RECURSIVE EmitPairs(_, _, _, _, _)
\* the loop over the nodes reachable from one start: <<records, visitedPairs>>
EmitPairs(graph, start, reachable, visitedPairs, out) ==
  IF Len(reachable) = 0 THEN <<out, visitedPairs>>
  ELSE LET end == Head(reachable)
           key == PairKey(start, end)
           p1  == NodePage(graph.nodes, start)
           pg  == IF p1 # Undefined THEN p1 ELSE NodePage(graph.nodes, end)
       IN IF key \in visitedPairs
          THEN EmitPairs(graph, start, Tail(reachable), visitedPairs, out)
          ELSE EmitPairs(graph, start, Tail(reachable), visitedPairs \cup {key},
                         Append(out, WireRecord(graph.id, start, end, pg, Undefined)))

RECURSIVE ResolveStarts(_, _, _, _, _)
\* the loop over the real nodes of one graph
ResolveStarts(graph, starts, realNodes, visitedPairs, out) ==
  IF Len(starts) = 0 THEN out
  ELSE LET r == EmitPairs(graph, Head(starts),
                          bfsReachableRealNodes(graph.edges, Head(starts), realNodes),
                          visitedPairs, out)
       IN ResolveStarts(graph, Tail(starts), realNodes, r[2], r[1])

\* the records one graph resolves to
ResolveGraph(graph) ==
  LET realNodesSet == RealNodesOf(graph.nodes, <<>>)
  IN IF Len(realNodesSet) < 2 THEN <<>>
     ELSE ResolveStarts(graph, realNodesSet, realNodesSet, {}, <<>>)

RECURSIVE ResolveGraphs(_)
ResolveGraphs(graphs) ==
  IF Len(graphs) = 0 THEN <<>>
  ELSE ResolveGraph(Head(graphs)) \o ResolveGraphs(Tail(graphs))

resolveWireConnections(graphs) == ResolveGraphs(graphs)

(***************************************************************************)
(* normalizeWires and its helpers                                          *)
(***************************************************************************)

\* the phase-only identifiers with the numbered phases among them
PhaseAndLineIds == {"N", "PE", "PEN", "L1", "L2", "L3"}

PHASE_ONLY_IDS == {"N", "PE", "PEN"}

\* /^-?\d+(?:[.,]\d+)?$/ on the trimmed value; an absent value is no string
isNumericCoordinate(value) ==
  LET t == Trim(value)
      a == IF StartsWith(t, "-") THEN 2 ELSE 1
      d == DigitRunEnd(t, a)
      e == IF CharAt(t, d) \in {".", ","} THEN DigitRunEnd(t, d + 1) ELSE d
  IN /\ d > a
     /\ e = Len(t) + 1
     /\ (CharAt(t, d) \in {".", ","} => e > d + 1)

\* [a, b].filter(Boolean).join(' | ')
JoinNotes(a, b) ==
  IF a = "" THEN b ELSE IF b = "" THEN a ELSE a \o " | " \o b

markRimandoEndpoint(endpoint, note) ==
  IF ~isNumericCoordinate(endpoint) THEN [endpoint |-> endpoint, note |-> note]
  ELSE [endpoint |-> "rimando " \o Trim(endpoint),
        note     |-> JoinNotes(note, "rimando/coord: " \o Trim(endpoint))]

\* Number(s) of a decimal literal [+-]digits[.digits], s with ',' already replaced:
\* <<is a number, sign, integer part, the fraction is not zero>>; other forms are NaN
NumberOf(s) ==
  LET a  == IF CharAt(s, 1) \in {"+", "-"} THEN 2 ELSE 1
      d  == DigitRunEnd(s, a)
      e  == IF CharAt(s, d) = "." THEN DigitRunEnd(s, d + 1) ELSE d
      ok == e = Len(s) + 1 /\ (d > a \/ e > d + 1)
      fr == IF e > d + 1 THEN ParseInt(SubSeq(s, d + 1, e - 1)) ELSE 0
  IN IF ok THEN <<TRUE, IF CharAt(s, 1) = "-" THEN -1 ELSE 1, ParseInt(SubSeq(s, a, d - 1)), fr > 0>>
     ELSE <<FALSE, 1, 0, FALSE>>

\* String.prototype.replace(',', '.'): the first comma only
ReplaceFirstComma(s) ==
  LET k == IndexOfChar(s, ",")
  IN IF k = 0 THEN s ELSE SubSeq(s, 1, k - 1) \o "." \o SubSeq(s, k + 1, Len(s))

\* /^\d+\s*x\s*\d+/i on the lower-cased value
IsMultiCore(lower) ==
  LET d == DigitRunEnd(lower, 1)
      x == SpaceRunEnd(lower, d)
      y == SpaceRunEnd(lower, x + 1)
  IN d > 1 /\ CharAt(lower, x) = "x" /\ IsDigit(CharAt(lower, y))

\* "" stands for undefined
sanitizeGaugeValue(value) ==
  LET trimmed == Trim(value)
      lower   == ToLowerCase(trimmed)
      numeric == NumberOf(ReplaceFirstComma(lower))
  IN IF trimmed = "" THEN ""
     ELSE IF Includes(lower, "mm") THEN trimmed
     ELSE IF IsMultiCore(lower) THEN trimmed
     ELSE IF /\ numeric[1]
             /\ numeric[2] = 1
             /\ (numeric[3] > 0 \/ numeric[4])
             /\ (numeric[3] < 70 \/ (numeric[3] = 70 /\ ~numeric[4]))
          THEN trimmed
     ELSE ""

\* length_mm is a number here (Undefined when absent): a finite number is kept
sanitizeLengthValue(value) == value

shouldDropWireId(id) ==
  LET trimmed == Trim(id)
  IN IF id = "" THEN FALSE
     ELSE IF ToLowerCase(CharAt(trimmed, 1)) = "w" THEN TRUE
     ELSE ToUpperCase(trimmed) \in PHASE_ONLY_IDS

RECURSIVE CharRunEnd(_, _, _)
\* the position after the longest run of the character c of s that starts at i
CharRunEnd(s, c, i) ==
  IF CharAt(s, i) = c THEN CharRunEnd(s, c, i + 1) ELSE i

RECURSIVE TokenRunEnd(_, _)
\* the position after the longest run of [A-Za-z0-9_.-] of s that starts at i
TokenRunEnd(s, i) ==
  IF \/ CharAt(s, i) \in UpperSet \cup LowerSet \cup DigitSet
     \/ CharAt(s, i) \in {"_", ".", "-"}
  THEN TokenRunEnd(s, i + 1) ELSE i

\* the rest of the pattern of line 1081 after the number group, from position i:
\* \\s*[\\/\\\\]\\s*([A-Za-z0-9_.-]+)\\s*$ , in which \\ is a literal backslash
\* followed by the letter: <<matched, token>>
CompositeTail(id, i) ==
  LET s1 == CharRunEnd(id, "s", i + 1)
      sr == CharRunEnd(id, "s", s1 + 2)
      \* the run of s gives its last s back when no token character follows it
      s2 == IF TokenRunEnd(id, sr) = sr /\ sr > s1 + 2 THEN sr - 1 ELSE sr
      t  == TokenRunEnd(id, s2)
      s3 == CharRunEnd(id, "s", t + 1)
      ok == /\ CharAt(id, i) = "\\"
            /\ CharAt(id, s1) \in {"\\", "/"}
            /\ CharAt(id, s1 + 1) = "\\"
            /\ t > s2
            /\ CharAt(id, t) = "\\"
            /\ s3 = Len(id) + 1
  IN <<ok, IF ok THEN SubSeq(id, s2, t - 1) ELSE "">>

\* updated.id.match(/^\\s*(\\d+(?:\\.\\d+)?)\\s*[\\/\\\\]\\s*([A-Za-z0-9_.-]+)\\s*$/) as
\* line 1081 writes it: every \\ of the literal is a backslash character, so the
\* number group is a backslash and a run of the letter d
CompositeIdMatch(id) ==
  LET s0 == CharRunEnd(id, "s", 2)
      d1 == CharRunEnd(id, "d", s0 + 1)
      d2 == CharRunEnd(id, "d", d1 + 3)
      head == /\ CharAt(id, 1) = "\\"
              /\ CharAt(id, s0) = "\\"
              /\ d1 > s0 + 1
      long == /\ head
              /\ CharAt(id, d1) = "\\"
              /\ CharAt(id, d1 + 1) # ""
              /\ CharAt(id, d1 + 2) = "\\"
              /\ d2 > d1 + 3
              /\ CompositeTail(id, d2)[1]
  IN IF long
     THEN [ok |-> TRUE, gaugeVal |-> SubSeq(id, s0, d2 - 1), idVal |-> CompositeTail(id, d2)[2]]
     ELSE IF head /\ CompositeTail(id, d1)[1]
     THEN [ok |-> TRUE, gaugeVal |-> SubSeq(id, s0, d1 - 1), idVal |-> CompositeTail(id, d1)[2]]
     ELSE [ok |-> FALSE, gaugeVal |-> "", idVal |-> ""]

\* the .map step of normalizeWires on one wire
NormalizeFields(w) ==
  LET m        == CompositeIdMatch(w.id)
      gauge1   == IF m.ok /\ w.gauge = "" THEN m.gaugeVal ELSE w.gauge
      id1      == IF m.ok THEN m.idVal ELSE w.id
      fromMark == markRimandoEndpoint(Trim(w.from), w.note)
      toMark   == markRimandoEndpoint(Trim(w.to), fromMark.note)
  IN [w EXCEPT !.id = Trim(id1),
               !.from = fromMark.endpoint,
               !.to = toMark.endpoint,
               !.cable = Trim(w.cable),
               !.color = Trim(w.color),
               !.note = toMark.note,
               !.gauge = sanitizeGaugeValue(gauge1),
               !.length_mm = sanitizeLengthValue(w.length_mm)]

\* the first .filter step alone
KeepAnyEndpoints(w) == ~shouldDropWireId(w.id)

\* the three .filter steps
KeepWire(w) ==
  /\ ~shouldDropWireId(w.id)
  /\ Trim(w.id) # "" /\ Trim(w.from) # "" /\ Trim(w.to) # ""
  /\ ~(isNumericCoordinate(w.from) /\ isNumericCoordinate(w.to))

\* const filtered = normalized.filter(...)
FilteredWires(wires) ==
  SelectSeq([i \in 1..Len(wires) |-> NormalizeFields(wires[i])], KeepWire)

\* the match of /^(-?)(XT\d+)(.*)/i : <<matched, group 1, group 2, group 3>>
XtMatch(ep) ==
  LET a  == IF StartsWith(ep, "-") THEN 2 ELSE 1
      d  == DigitRunEnd(ep, a + 2)
      ok == ToLowerCase(SubSeq(ep \o "  ", a, a + 1)) = "xt" /\ d > a + 2
  IN IF ok THEN <<TRUE, SubSeq(ep, 1, a - 1), SubSeq(ep, a, d - 1), SubSeq(ep, d, Len(ep))>>
     ELSE <<FALSE, "", "", "">>

RECURSIVE XtNames(_, _)
\* xtNames: the terminal-block names seen on the endpoints, upper-cased
XtNames(wires, acc) ==
  IF Len(wires) = 0 THEN acc
  ELSE LET mf == XtMatch(Head(wires).from)
           mt == XtMatch(Head(wires).to)
           a1 == IF mf[1] THEN SetAdd(acc, ToUpperCase(mf[3])) ELSE acc
           a2 == IF mt[1] THEN SetAdd(a1, ToUpperCase(mt[3])) ELSE a1
       IN XtNames(Tail(wires), a2)

\* String.prototype.endsWith
EndsWith(s, p) == Len(s) >= Len(p) /\ SubSeq(s, Len(s) - Len(p) + 1, Len(s)) = p

\* longer ends with the digits of name, however many digits lead
IsSuffixOf(name, longer) ==
  /\ longer # name
  /\ Len(longer) > Len(name)
  /\ EndsWith(SubSeq(longer, 3, Len(longer)), SubSeq(name, 3, Len(name)))

\* longer is name with one more leading digit
IsTruncationOf(name, longer) ==
  LET shortDigits == SubSeq(name, 3, Len(name))
      longDigits  == SubSeq(longer, 3, Len(longer))
  IN /\ longer # name
     /\ EndsWith(longDigits, shortDigits)
     /\ Len(longDigits) = Len(shortDigits) + 1

\* xtCorrections.get(name): the first longer name in xtNames order, "" when none
XtCorrection(names, name) ==
  LET hits == SelectSeq(names, LAMBDA longer : IsTruncationOf(name, longer))
  IN IF Len(hits) = 0 THEN "" ELSE hits[1]

\* the entries of xtCorrections, in insertion order
XtCorrections(names) ==
  LET short == SelectSeq(names, LAMBDA n : XtCorrection(names, n) # "")
  IN [i \in 1..Len(short) |-> <<short[i], XtCorrection(names, short[i])>>]

\* one endpoint after the correction
CorrectEndpoint(names, ep) ==
  LET m == XtMatch(ep)
      replacement == IF m[1] THEN XtCorrection(names, ToUpperCase(m[3])) ELSE ""
  IN IF replacement # "" THEN m[2] \o replacement \o m[4] ELSE ep

\* filtered after the terminal-block correction
CorrectedWires(filtered) ==
  LET names == XtNames(filtered, <<>>)
  IN [i \in 1..Len(filtered) |->
        [filtered[i] EXCEPT !.from = CorrectEndpoint(names, filtered[i].from),
                            !.to = CorrectEndpoint(names, filtered[i].to)]]

\* the number of populated fields of a wire
scored(wire) ==
  LET strs == <<wire.id, wire.from, wire.to, wire.cable, wire.gauge, wire.color,
                wire.terminal_a, wire.terminal_b, wire.note>>
  IN Cardinality({i \in 1..Len(strs) : Trim(strs[i]) # ""})
     + (IF wire.length_mm # Undefined THEN 1 ELSE 0)

\* `${id}|${from}|${to}`
WireKey(id, from, to) == id \o "|" \o from \o "|" \o to

\* the index of a key in a Map kept as a sequence of <<key, value>>, 0 when absent
KeyIndex(map, key) ==
  IF \E i \in 1..Len(map) : map[i][1] = key
  THEN CHOOSE i \in 1..Len(map) : map[i][1] = key
  ELSE 0

RECURSIVE DedupLoop(_, _)
\* the loop that fills the Map deduped
DedupLoop(wires, deduped) ==
  IF Len(wires) = 0 THEN deduped
  ELSE LET wire == Head(wires)
           key  == WireKey(Trim(wire.id), Trim(wire.from), Trim(wire.to))
           k    == KeyIndex(deduped, key)
           existing   == deduped[k][2]
           mergedNote == JoinNotes(existing.note, wire.note)
           candidate  == IF scored(wire) > scored(existing) THEN wire ELSE existing
           merged     == IF mergedNote # "" THEN [candidate EXCEPT !.note = mergedNote]
                         ELSE candidate
       IN IF k = 0 THEN DedupLoop(Tail(wires), Append(deduped, <<key, wire>>))
          ELSE DedupLoop(Tail(wires), [deduped EXCEPT ![k] = <<key, merged>>])

\* Array.from(map.values())
MapValues(map) == [i \in 1..Len(map) |-> map[i][2]]

\* const sanitizedWires
SanitizedWires(wires) == MapValues(DedupLoop(CorrectedWires(FilteredWires(wires)), <<>>))

\* the labels the panel filter compares: trimmed and lower-cased
PanelLabel(ep) == ToLowerCase(Trim(ep))

\* panelEndpoints: the non-reference endpoints of the wires tagged _panel
PanelEndpoints(sanitizedWires) ==
  LET tagged == {w \in Range(sanitizedWires) : w.panel}
      labels == {PanelLabel(w.from) : w \in tagged} \cup {PanelLabel(w.to) : w \in tagged}
  IN {l \in labels : l # "" /\ ~StartsWith(l, "rimando")}

\* a filter that keeps every segment
hasRimandoAny(w) == w.from = w.from

hasRimando(w) ==
  Includes(ToLowerCase(w.from), "rimando") \/ Includes(ToLowerCase(w.to), "rimando")

\* the panel filter on one record
TouchesPanel(panelEndpoints, w) ==
  PanelLabel(w.from) \in panelEndpoints \/ PanelLabel(w.to) \in panelEndpoints

\* a final merge that appends every resolved wire, present or not
FinalDedupAll(resolvedWires, finalDedup) ==
  finalDedup \o [i \in 1..Len(resolvedWires) |->
                   <<WireKey(resolvedWires[i].id, resolvedWires[i].from, resolvedWires[i].to),
                     resolvedWires[i]>>]

RECURSIVE FinalDedup(_, _)
\* the resolved wires join finalDedup unless their key or reverse key is there
FinalDedup(resolvedWires, finalDedup) ==
  IF Len(resolvedWires) = 0 THEN finalDedup
  ELSE LET wire == Head(resolvedWires)
           key  == WireKey(wire.id, wire.from, wire.to)
           reverseKey == WireKey(wire.id, wire.to, wire.from)
       IN IF KeyIndex(finalDedup, key) = 0 /\ KeyIndex(finalDedup, reverseKey) = 0
          THEN FinalDedup(Tail(resolvedWires), Append(finalDedup, <<key, wire>>))
          ELSE FinalDedup(Tail(resolvedWires), finalDedup)

\* a final merge that starts from the resolved wires alone
CompleteDedupNone(completeWires, finalDedup) == finalDedup

RECURSIVE CompleteDedup(_, _)
\* finalDedup.set(key, wire) for the complete wires
CompleteDedup(completeWires, finalDedup) ==
  IF Len(completeWires) = 0 THEN finalDedup
  ELSE LET wire == Head(completeWires)
           key  == WireKey(wire.id, wire.from, wire.to)
           k    == KeyIndex(finalDedup, key)
       IN IF k = 0 THEN CompleteDedup(Tail(completeWires), Append(finalDedup, <<key, wire>>))
          ELSE CompleteDedup(Tail(completeWires), [finalDedup EXCEPT ![k] = <<key, wire>>])

\* the warning pushed for a reference-bearing wire whose identifier resolved nothing
UnresolvedWarning(wire) ==
  [kind |-> "rimando non risolto", id |-> Trim(wire.id), from |-> wire.from,
   to |-> wire.to, page |-> wire.page]

\* the warning pushed when terminal-block names were corrected
XtWarning(corrections) == [kind |-> "correzione morsettiere", corrections |-> corrections]

\* a warning for every reference-bearing wire, resolved or not
UnresolvedWarningsAll(wiresWithRimandi, resolvedWires) ==
  [i \in 1..Len(wiresWithRimandi) |-> UnresolvedWarning(wiresWithRimandi[i])]

\* the warnings of the resolution branch: the reference-bearing wires whose
\* identifier is on no resolved record
UnresolvedWarnings(wiresWithRimandi, resolvedWires) ==
  LET resolvedWireIds == {r.id : r \in Range(resolvedWires)}
      unresolved == SelectSeq(wiresWithRimandi, LAMBDA w : Trim(w.id) \notin resolvedWireIds)
  IN [i \in 1..Len(unresolved) |-> UnresolvedWarning(unresolved[i])]

\* a panel filter that keeps the rows tagged as read on the target panel, whether
\* or not a cross-panel pool was used
PanelFilterByTag(result, sanitizedWires, hasCrossPanel) ==
  SelectSeq(result, LAMBDA w : w.panel)

\* if (panelEndpoints) result = result.filter(...)
PanelFilter(result, sanitizedWires, hasCrossPanel) ==
  IF hasCrossPanel
  THEN SelectSeq(result, LAMBDA w : TouchesPanel(PanelEndpoints(sanitizedWires), w))
  ELSE result

\* the branch taken when some wire bears a reference: graph, resolution, final dedup
ResolveBranch(sanitizedWires, resolvedWires, hasCrossPanel) ==
  [wires    |-> PanelFilter(
                  MapValues(FinalDedup(resolvedWires,
                    CompleteDedup(SelectSeq(sanitizedWires, LAMBDA w : ~hasRimando(w)), <<>>))),
                  sanitizedWires, hasCrossPanel),
   warnings |-> UnresolvedWarnings(SelectSeq(sanitizedWires, hasRimando), resolvedWires)]

\* normalizeWires from const sanitizedWires on
NormalizeSanitized(sanitizedWires, hasCrossPanel) ==
  IF \E k \in 1..Len(sanitizedWires) : hasRimando(sanitizedWires[k])
  THEN ResolveBranch(sanitizedWires, resolveWireConnections(buildWireGraph(sanitizedWires)),
                     hasCrossPanel)
  ELSE [wires |-> PanelFilter(sanitizedWires, sanitizedWires, hasCrossPanel),
        warnings |-> <<>>]

\* the warning of the terminal-block correction, when there is one
XtWarnings(corrections) == IF Len(corrections) > 0 THEN <<XtWarning(corrections)>> ELSE <<>>

\* the result of the later phases with the earlier warnings in front
WithWarnings(normWarnings, out) ==
  [wires |-> out.wires, warnings |-> normWarnings \o out.warnings]

normalizeWires(wires, hasCrossPanel) ==
  WithWarnings(XtWarnings(XtCorrections(XtNames(FilteredWires(wires), <<>>))),
               NormalizeSanitized(SanitizedWires(wires), hasCrossPanel))

(***************************************************************************)
(* normalizeComponents                                                     *)
(***************************************************************************)

\* a ComponentRecord; quantity and page are numbers, Undefined when absent;
\* wires is the array of wire identifiers
ComponentRecord(ref, description, page) ==
  [ref |-> ref, description |-> description, quantity |-> Undefined, note |-> "",
   wires |-> <<>>, page |-> page]

\* /^-?\\d+(?:\\.\\d+)?$/ as line 1309 writes it: \\ is a backslash character, so
\* the pattern asks for a backslash and a run of the letter d
GaugeLikeRef(ref) ==
  LET a  == IF StartsWith(ref, "-") THEN 2 ELSE 1
      d1 == CharRunEnd(ref, "d", a + 1)
      d2 == CharRunEnd(ref, "d", d1 + 3)
  IN /\ CharAt(ref, a) = "\\"
     /\ d1 > a + 1
     /\ \/ d1 = Len(ref) + 1
        \/ /\ CharAt(ref, d1) = "\\"
           /\ CharAt(ref, d1 + 1) # ""
           /\ CharAt(ref, d1 + 2) = "\\"
           /\ d2 > d1 + 3
           /\ d2 = Len(ref) + 1

\* the .filter step
KeepComponent(c) ==
  ~(Trim(c.ref) # "" /\ GaugeLikeRef(Trim(c.ref)) /\ Trim(c.description) = "")

RECURSIVE AlnumRunEnd(_, _)
\* the position after the longest run of [A-Za-z0-9] of s that starts at i
AlnumRunEnd(s, i) ==
  IF CharAt(s, i) \in UpperSet \cup LowerSet \cup DigitSet THEN AlnumRunEnd(s, i + 1) ELSE i

\* the .map step: /^(-?[A-Za-z0-9]+)([:\\/])(.*)$/ splits a pin suffix off the ref
SplitPinSuffix(c) ==
  LET a == IF StartsWith(c.ref, "-") THEN 2 ELSE 1
      e == AlnumRunEnd(c.ref, a)
  IN IF e > a /\ CharAt(c.ref, e) \in {":", "\\", "/"}
     THEN [c EXCEPT !.ref = SubSeq(c.ref, 1, e - 1),
                    !.note = JoinNotes(c.note, "terminale/suffisso: "
                                               \o Trim(SubSeq(c.ref, e + 1, Len(c.ref))))]
     ELSE c

\* [...existingWires, ...newWires].map(w => String(w).trim()).filter(Boolean), as a Set
MergeWireIds(existingWires, newWires) ==
  LET all == existingWires \o newWires
  IN SetAddAll(<<>>, SelectSeq([i \in 1..Len(all) |-> Trim(all[i])], LAMBDA w : w # ""))

\* the first record of a ref kept as it is
MergeKeepFirst(existing, comp) == existing

\* the record that replaces existing when comp has the same ref
MergeComponent(existing, comp) ==
  LET mergedWires == MergeWireIds(existing.wires, comp.wires)
      mergedNote  == JoinNotes(Trim(existing.note), Trim(comp.note))
  IN [existing EXCEPT
        !.description = IF Trim(existing.description) = "" /\ Trim(comp.description) # ""
                        THEN Trim(comp.description) ELSE existing.description,
        !.quantity = IF existing.quantity # Undefined /\ comp.quantity # Undefined
                     THEN existing.quantity + comp.quantity
                     ELSE IF existing.quantity = Undefined /\ comp.quantity # Undefined
                     THEN comp.quantity ELSE existing.quantity,
        !.wires = IF Len(mergedWires) > 0 THEN mergedWires ELSE existing.wires,
        !.note = IF mergedNote # "" THEN mergedNote ELSE existing.note,
        !.page = IF existing.page = Undefined /\ comp.page # Undefined
                 THEN comp.page ELSE existing.page]

RECURSIVE ComponentDedup(_, _)
ComponentDedup(comps, deduped) ==
  IF Len(comps) = 0 THEN deduped
  ELSE LET comp == Head(comps)
           ref  == Trim(comp.ref)
           k    == KeyIndex(deduped, ref)
       IN IF ref = "" THEN ComponentDedup(Tail(comps), deduped)
          ELSE IF k = 0 THEN ComponentDedup(Tail(comps), Append(deduped, <<ref, comp>>))
          ELSE ComponentDedup(Tail(comps),
                              [deduped EXCEPT ![k] = <<ref, MergeComponent(deduped[k][2], comp)>>])

normalizeComponents(components) ==
  LET kept == SelectSeq(components, KeepComponent)
  IN MapValues(ComponentDedup([i \in 1..Len(kept) |-> SplitPinSuffix(kept[i])], <<>>))

(***************************************************************************)
(* The resolution pass as a state machine: a pool of normalized segments   *)
(* grows one segment at a time, then buildWireGraph and                    *)
(* resolveWireConnections run on it.                                       *)
(***************************************************************************)

VARIABLES
  menu,      \* which family of segments the pool is drawn from
  pool,      \* the segments handed to buildWireGraph, in pool order
  graphs,    \* the result of buildWireGraph
  resolved,  \* the result of resolveWireConnections
  gpc,       \* "input", "built" or "resolved"
  \* the extraction run (extractWirelistToExcel)
  doc,             \* the document: which pages it has
  limit,           \* VISION_CONCURRENCY
  apiKey,          \* OPENROUTER_API_KEY is configured
  index,           \* runBatchPool: the next item to start
  active,          \* runBatchPool: the page indexes whose promise is in the Set active
  ppc,             \* "read", then runBatchPool: "start", "await", "done", then "finished"
                   \* and "written"; "rejected" when extractWirelistToExcel has thrown
  raceFired,       \* the promise of Promise.race(active) has settled
  pst,             \* per page: "idle", "fetch", "backoff", "returned", "report", "settling", "settled"
  attempt,         \* per page: the loop variable of extractWithVision
  waitMs,          \* per page: the delay of the last backoff timer of extractWithVision
  rateRun,         \* per page: the rate-limit responses received in a row by the call in progress
  qres,            \* per page: what extractWithVision returned (qwenResult)
  starts,          \* per page: how many times the worker was started
  okPages,         \* the pages whose recognition result was a success and has been processed
  wires,           \* the target pool
  components,      \* the components of the target panel
  crossPanelWires, \* the cross-panel pool
  warnings,        \* the warnings of the run
  skippedPages,
  completedPages,
  resultWires,     \* wires after normalizeWires
  resultComponents, \* components after normalizeComponents
  \* normalizeWires on the two pools of a run
  family,          \* which family of raw segments the two pools are drawn from
  rawWires,        \* wires: the raw segments of the target panel's pages
  rawCrossWires,   \* crossPanelWires: the raw reference-bearing segments of other panels
  normResult,      \* the result of normalizeWires on the two pools
  normResult2,     \* the result of normalizeWires on normResult.wires
  npc,             \* "input", "normalized" or "renormalized"
  rawComponents,   \* components: the raw components of the target panel's pages
  compResult,      \* the result of normalizeComponents
  \* resolveWireConnections one loop iteration at a time
  bfsPending,      \* the real nodes of the graph that have not been a start yet
  bfsStart,        \* start
  bfsQueue,        \* queue
  bfsVisited,      \* visited
  bfsReachable,    \* reachable, in insertion order
  bfsOrder,        \* the nodes the search has passed to visited.add, in that order
  bpc              \* "idle", "next" (between two searches), "loop" or "done"

gvars == <<menu, pool, graphs, resolved, gpc>>

rvars == <<doc, limit, apiKey, index, active, ppc, raceFired, pst, attempt, waitMs, rateRun, qres,
           starts, okPages, wires, components, crossPanelWires, warnings, skippedPages,
           completedPages, resultWires, resultComponents>>

nvars == <<family, rawWires, rawCrossWires, normResult, normResult2, npc, rawComponents,
           compResult>>

bvars == <<bfsPending, bfsStart, bfsQueue, bfsVisited, bfsReachable, bfsOrder, bpc>>

vars == <<gvars, rvars, nvars, bvars>>

\* the longest pool
MaxWires == 4

\* segments of wire 24 on sheets 100, 108 and 110 whose references point at each other
ChainSegments ==
  { WireRecord("24", "QM102.1", "rimando 108", 1, 100),
    WireRecord("24", "rimando 100.2", "KM45.2", 2, 108),
    WireRecord("24", "rimando 100", "-XT1.3", 2, 108),
    WireRecord("24", "KM45.2", "rimando 110", 2, 108),
    WireRecord("24", "rimando 110", "-XT1.3", 2, 108),
    WireRecord("24", "QM102.1", "KM45.2", 1, 100),
    WireRecord("24", "rimando 108", "-XT1.3", 3, 110) }

\* segments of wire 24 that all refer to sheet 108, from sheets 104 and 110 and from
\* two pages whose sheet number was not read, in the label forms the Normalizer produces
NamingSegments ==
  { WireRecord("24", "QM102.1", "rimando 108", 1, 104),
    WireRecord("24", "KM45.2", "rimando 108", 3, 110),
    WireRecord("24", "QM102.1", "rimando 108,1", 1, 104),
    WireRecord("24", "KM45.2", "rimando 108,1", 3, 110),
    WireRecord("24", "-XT1.3", "rimando 108", 4, Undefined),
    WireRecord("24", "KM45.2", "rimando 108", 5, Undefined),
    WireRecord("24", "rimando 108.1", "-XT1.3", 3, 110) }

\* segments of wires 24 and 25 with references between sheets 100, 108 and 110, one
\* of them from a page whose sheet number was not read
LinkingSegments ==
  { WireRecord("24", "QM102.1", "rimando 108", 1, 100),
    WireRecord("24", "rimando 100", "KM45.2", 2, 108),
    WireRecord("25", "Rimando 100.4", "KM46.2", 2, 108),
    WireRecord("25", "QM103.1", "rimando 108", 3, Undefined),
    WireRecord("24", "rimando 100", "KM47.1", 4, 110) }

Segments(m) ==
  IF m = "chain" THEN ChainSegments
  ELSE IF m = "naming" THEN NamingSegments
  ELSE LinkingSegments

\* the pages of a document are numbered from 0 (pageIndex)
NPages == 3
Pages == 0..(NPages - 1)

\* no extraction run has been set up
RunIdle ==
  /\ doc = "none" /\ limit = 1 /\ apiKey = TRUE
  /\ index = 0 /\ active = {} /\ ppc = "idle" /\ raceFired = FALSE
  /\ pst = [i \in Pages |-> "idle"]
  /\ attempt = [i \in Pages |-> 0]
  /\ waitMs = [i \in Pages |-> 0]
  /\ rateRun = [i \in Pages |-> 0]
  /\ qres = [i \in Pages |-> [kind |-> "none", cause |-> ""]]
  /\ starts = [i \in Pages |-> 0]
  /\ okPages = {}
  /\ wires = <<>> /\ components = <<>> /\ crossPanelWires = <<>> /\ warnings = <<>>
  /\ skippedPages = 0 /\ completedPages = 0
  /\ resultWires = <<>> /\ resultComponents = <<>>

\* no normalization on its own has been set up
NormIdle ==
  /\ family = "none" /\ rawWires = <<>> /\ rawCrossWires = <<>>
  /\ normResult = [wires |-> <<>>, warnings |-> <<>>]
  /\ normResult2 = [wires |-> <<>>, warnings |-> <<>>]
  /\ npc = "idle"
  /\ rawComponents = <<>> /\ compResult = <<>>

\* no step-by-step resolution has been set up
BfsIdle ==
  /\ bfsPending = <<>> /\ bfsStart = "" /\ bfsQueue = <<>> /\ bfsVisited = {}
  /\ bfsReachable = <<>> /\ bfsOrder = <<>> /\ bpc = "idle"

GraphInit ==
  /\ menu \in {"chain", "naming", "linking"}
  /\ pool = <<>>
  /\ graphs = <<>>
  /\ resolved = <<>>
  /\ gpc = "input"
  /\ RunIdle
  /\ NormIdle
  /\ BfsIdle

\* one more segment reaches the pool
AddWire ==
  /\ gpc = "input"
  /\ Len(pool) < MaxWires
  /\ \E w \in Segments(menu) : pool' = Append(pool, w)
  /\ UNCHANGED <<menu, graphs, resolved, gpc>>
  /\ UNCHANGED <<rvars, nvars, bvars>>

\* const graphs = buildWireGraph(sanitizedWires)
BuildGraphs ==
  /\ gpc = "input"
  /\ graphs' = buildWireGraph(pool)
  /\ gpc' = "built"
  /\ UNCHANGED <<menu, pool, resolved>>
  /\ UNCHANGED <<rvars, nvars, bvars>>

\* const resolved = resolveWireConnections(graphs)
Resolve ==
  /\ gpc = "built"
  /\ resolved' = resolveWireConnections(graphs)
  /\ gpc' = "resolved"
  /\ UNCHANGED <<menu, pool, graphs>>
  /\ UNCHANGED <<rvars, nvars, bvars>>

GraphNext == AddWire \/ BuildGraphs \/ Resolve

SpecGraph == GraphInit /\ [][GraphNext]_vars

(***************************************************************************)
(* resolveWireConnections one loop iteration at a time: the loop over the  *)
(* real nodes of a graph and, inside it, the while loop of                 *)
(* bfsReachableRealNodes.                                                  *)
(***************************************************************************)

\* segments of wire 24 on sheets 100, 108 and 110: references that point at each other
\* in a ring, a reference to its own sheet, a segment from a device to itself and a
\* segment drawn in both directions
CyclicSegments ==
  << WireRecord("24", "QM1.1", "rimando 108", 1, 100),
     WireRecord("24", "rimando 108", "rimando 110", 1, 100),
     WireRecord("24", "rimando 100", "rimando 110", 2, 108),
     WireRecord("24", "rimando 100", "rimando 108", 3, 110),
     WireRecord("24", "rimando 110", "KM2.1", 2, 108),
     WireRecord("24", "rimando 100", "KM2.1", 1, 100),
     WireRecord("24", "KM2.1", "KM2.1", 2, 108),
     WireRecord("24", "rimando 108", "QM1.1", 1, 100) >>

RECURSIVE PickSegments(_, _)
\* the segments of a list whose positions are in a set, in list order
PickSegments(segments, positions) ==
  IF Len(segments) = 0 THEN <<>>
  ELSE PickSegments(SubSeq(segments, 1, Len(segments) - 1), positions)
       \o (IF Len(segments) \in positions THEN <<segments[Len(segments)]>> ELSE <<>>)

\* the real nodes resolveWireConnections starts a search from: none when the graph
\* has fewer than two
BfsStarts(gs) ==
  IF Len(gs) = 0 THEN <<>>
  ELSE LET realNodesSet == RealNodesOf(gs[1].nodes, <<>>)
       IN IF Len(realNodesSet) < 2 THEN <<>> ELSE realNodesSet

\* resolveWireConnections is entered with the graphs of a pool
BfsInit ==
  /\ menu = "cyclic"
  /\ pool \in { PickSegments(CyclicSegments, ps) : ps \in SUBSET (1..Len(CyclicSegments)) }
  /\ graphs = buildWireGraph(pool)
  /\ resolved = <<>>
  /\ gpc = "built"
  /\ bfsPending = BfsStarts(graphs)
  /\ bfsStart = "" /\ bfsQueue = <<>> /\ bfsVisited = {}
  /\ bfsReachable = <<>> /\ bfsOrder = <<>> /\ bpc = "next"
  /\ RunIdle
  /\ NormIdle

\* for (const start of realNodesSet): bfsReachableRealNodes(adj, start, realNodesSet) is entered
BfsCall ==
  /\ bpc = "next"
  /\ Len(bfsPending) > 0
  /\ bfsStart' = Head(bfsPending)
  /\ bfsPending' = Tail(bfsPending)
  /\ bfsQueue' = <<Head(bfsPending)>>
  /\ bfsVisited' = {}
  /\ bfsReachable' = <<>>
  /\ bfsOrder' = <<>>
  /\ bpc' = "loop"
  /\ UNCHANGED <<gvars, rvars, nvars>>

\* an iteration that takes a node from the queue and handles it whether or not it
\* has been visited
BfsStepRevisit ==
  /\ bpc = "loop"
  /\ Len(bfsQueue) > 0
  /\ LET current == Head(bfsQueue)
         rest    == Tail(bfsQueue)
         seen    == bfsVisited \cup {current}
     IN /\ bfsVisited' = seen
        /\ bfsOrder' = Append(bfsOrder, current)
        /\ IF current \in Range(RealNodesOf(graphs[1].nodes, <<>>)) /\ current # bfsStart
           THEN /\ bfsReachable' = SetAdd(bfsReachable, current)
                /\ bfsQueue' = rest
           ELSE /\ bfsReachable' = bfsReachable
                /\ bfsQueue' = rest \o SelectSeq(AdjacencyOf(graphs[1].edges, current, <<>>),
                                                 LAMBDA n : n \notin seen)
  /\ UNCHANGED <<bfsPending, bfsStart, bpc>>
  /\ UNCHANGED <<gvars, rvars, nvars>>

\* one iteration of while (queue.length > 0)
BfsStep ==
  /\ bpc = "loop"
  /\ Len(bfsQueue) > 0
  /\ LET current == Head(bfsQueue)
         rest    == Tail(bfsQueue)
         seen    == bfsVisited \cup {current}
     IN IF current \in bfsVisited
        THEN /\ bfsQueue' = rest
             /\ UNCHANGED <<bfsVisited, bfsOrder, bfsReachable>>
        ELSE /\ bfsVisited' = seen
             /\ bfsOrder' = Append(bfsOrder, current)
             /\ IF current \in Range(RealNodesOf(graphs[1].nodes, <<>>)) /\ current # bfsStart
                THEN /\ bfsReachable' = SetAdd(bfsReachable, current)
                     /\ bfsQueue' = rest
                ELSE /\ bfsReachable' = bfsReachable
                     /\ bfsQueue' = rest \o SelectSeq(AdjacencyOf(graphs[1].edges, current, <<>>),
                                                      LAMBDA n : n \notin seen)
  /\ UNCHANGED <<bfsPending, bfsStart, bpc>>
  /\ UNCHANGED <<gvars, rvars, nvars>>

\* the queue is empty: return reachable
BfsReturn ==
  /\ bpc = "loop"
  /\ Len(bfsQueue) = 0
  /\ bpc' = "next"
  /\ UNCHANGED <<bfsPending, bfsStart, bfsQueue, bfsVisited, bfsReachable, bfsOrder>>
  /\ UNCHANGED <<gvars, rvars, nvars>>

\* every real node has been a start: resolveWireConnections returns
ResolveReturn ==
  /\ bpc = "next"
  /\ Len(bfsPending) = 0
  /\ bpc' = "done"
  /\ UNCHANGED <<bfsPending, bfsStart, bfsQueue, bfsVisited, bfsReachable, bfsOrder>>
  /\ UNCHANGED <<gvars, rvars, nvars>>

BfsNext == BfsCall \/ BfsStep \/ BfsReturn \/ ResolveReturn

\* the loops are sequential code: an iteration that can run does run
SpecBfs == BfsInit /\ [][BfsNext]_vars /\ WF_vars(BfsNext)

(***************************************************************************)
(* The extraction run: processPage over every page under runBatchPool,     *)
(* extractWithVision with its retry loop, then the post-processing of      *)
(* extractWirelistToExcel.                                                 *)
(***************************************************************************)

VISION_MAX_RETRIES == 3
MaxLimit == 2

\* input.panel_id
PanelId == "+A1"
\* startPage
StartPage == 1

\* what the recognition service answers to one request
Responses == {"ok", "rate", "net", "http", "empty", "badjson"}

\* one page of a document: whether its image exists, and the JSON the model
\* returns for it when the request succeeds
PageRecord(image, ubicazione, foglio, has_schema, ws, cs, warns) ==
  [image |-> image, ubicazione |-> ubicazione, foglio |-> foglio, has_schema |-> has_schema,
   wires |-> ws, components |-> cs, warnings |-> warns]

Docs == {"example", "cross", "blank", "unsheeted", "terminals", "labels"}

DocPage(d, i) ==
  CASE d = "example" ->
         IF i = 0 THEN
           PageRecord(TRUE, "+A1", 100, TRUE,
                      <<WireRecord("24", "QM102.1", "rimando 108", Undefined, Undefined)>>,
                      <<ComponentRecord("QM102", "Magnetotermico", Undefined)>>, <<>>)
         ELSE IF i = 1 THEN
           PageRecord(TRUE, "+A1", 108, TRUE,
                      <<WireRecord("24", "rimando 100", "KM45.2", Undefined, Undefined)>>,
                      <<ComponentRecord("KM45", "Contattore", Undefined)>>, <<>>)
         ELSE
           PageRecord(TRUE, "+A1", 100 + i, FALSE,
                      <<WireRecord("99", "QM1.1", "QM1.2", Undefined, Undefined)>>, <<>>, <<>>)
    [] d = "cross" ->
         IF i = 0 THEN
           PageRecord(TRUE, "+ a1", 100, TRUE,
                      <<WireRecord("24", "QM102.1", "rimando 108", Undefined, Undefined)>>,
                      <<ComponentRecord("QM102", "Magnetotermico", Undefined)>>, <<>>)
         ELSE IF i = 1 THEN
           PageRecord(TRUE, "+B2", 108, TRUE,
                      <<WireRecord("24", "Rimando 100", "KM45.2", Undefined, Undefined),
                        WireRecord("30", "KM45.3", "KM46.1", Undefined, Undefined)>>,
                      <<ComponentRecord("KM45", "Contattore", Undefined)>>, <<>>)
         ELSE
           PageRecord(TRUE, "A1", Undefined, TRUE,
                      <<WireRecord("31", "QM9.1", "QM9.2", Undefined, Undefined)>>,
                      <<ComponentRecord("QM9:1", "Magnetotermico", Undefined)>>,
                      <<"pagina poco leggibile">>)
    [] d = "terminals" ->
         IF i = 0 THEN
           PageRecord(TRUE, "+A1", 100, TRUE,
                      <<WireRecord("50", "-XT12.1", "KM1.1", Undefined, Undefined),
                        WireRecord("52", "-XT2.1", "KM1.3", Undefined, Undefined)>>, <<>>, <<>>)
         ELSE IF i = 1 THEN
           PageRecord(TRUE, "+A1", 101, TRUE,
                      <<WireRecord("51", "-XT22.1", "KM1.2", Undefined, Undefined)>>, <<>>, <<>>)
         ELSE PageRecord(FALSE, "", Undefined, FALSE, <<>>, <<>>, <<>>)
    [] d = "labels" ->
         IF i = 0 THEN
           PageRecord(TRUE, "+A-1", 100, TRUE,
                      <<WireRecord("70", "KA1.1", "KA2.1", Undefined, Undefined)>>, <<>>, <<>>)
         ELSE IF i = 1 THEN
           PageRecord(TRUE, "- a1", 101, TRUE,
                      <<WireRecord("71", "KA3.1", "KA4.1", Undefined, Undefined)>>, <<>>, <<>>)
         ELSE PageRecord(FALSE, "", Undefined, FALSE, <<>>, <<>>, <<>>)
    [] d = "unsheeted" ->
         IF i = 0 THEN
           PageRecord(TRUE, "+B2", Undefined, TRUE,
                      <<WireRecord("24", "rimando 100", "KM45.2", Undefined, Undefined),
                        WireRecord("30", "KM45.3", "KM46.1", Undefined, Undefined)>>,
                      <<ComponentRecord("KM45", "Contattore", Undefined)>>, <<>>)
         ELSE IF i = 1 THEN
           PageRecord(TRUE, "+A1", 100, TRUE,
                      <<WireRecord("24", "QM102.1", "rimando 108", Undefined, Undefined)>>,
                      <<ComponentRecord("QM102", "Magnetotermico", Undefined)>>, <<>>)
         ELSE PageRecord(FALSE, "", Undefined, FALSE, <<>>, <<>>, <<>>)
    [] OTHER ->
         IF i % 2 = 0 THEN PageRecord(FALSE, "", Undefined, FALSE, <<>>, <<>>, <<>>)
         ELSE
           PageRecord(TRUE, "+A1", 100 + i, TRUE,
                      <<WireRecord("40", "KA1.1", "KA2.1", Undefined, Undefined)>>,
                      <<ComponentRecord("KA1", "Rele", Undefined)>>, <<>>)

\* pageNum of processPage
PageNum(i) == StartPage + i

RECURSIVE StripPanel(_)
\* s.replace(/[\s+\-]/g, '')
StripPanel(s) ==
  IF Len(s) = 0 THEN ""
  ELSE IF CharAt(s, 1) \in {" ", "+", "-"} THEN StripPanel(SubSeq(s, 2, Len(s)))
  ELSE CharAt(s, 1) \o StripPanel(SubSeq(s, 2, Len(s)))

pageMatchesPanelId(ubicazione, panelId) ==
  IF ubicazione = "" \/ panelId = "" THEN FALSE
  ELSE ToUpperCase(StripPanel(ubicazione)) = ToUpperCase(StripPanel(panelId))

\* a warning of the run that names a page
PageWarning(i, kind) == [page |-> PageNum(i), kind |-> kind]

NoResult == [kind |-> "none", cause |-> ""]
\* the return statement after JSON.parse
OkResult == [kind |-> "ok", cause |-> ""]
\* the failure results: has_schema false, no data, one warning
FailResult(cause) == [kind |-> "fail", cause |-> cause]

\* the QwenExtractionResult a settled call of extractWithVision hands to processPage
QwenResult(d, i, res) ==
  LET pg == DocPage(d, i)
  IN IF res.kind = "ok"
     THEN [ubicazione |-> pg.ubicazione, foglio |-> pg.foglio, has_schema |-> pg.has_schema,
           wires |-> [k \in 1..Len(pg.wires) |->
                        [pg.wires[k] EXCEPT !.page = PageNum(i), !.foglio = pg.foglio]],
           components |-> [k \in 1..Len(pg.components) |->
                        [pg.components[k] EXCEPT !.page = PageNum(i)]],
           warnings |-> [k \in 1..Len(pg.warnings) |-> PageWarning(i, pg.warnings[k])]]
     ELSE [ubicazione |-> "", foglio |-> Undefined, has_schema |-> FALSE,
           wires |-> <<>>, components |-> <<>>,
           warnings |-> <<PageWarning(i, "errore modello: " \o res.cause)>>]

RunInit ==
  /\ doc \in Docs
  /\ limit \in 1..MaxLimit
  /\ apiKey \in BOOLEAN
  /\ index = 0 /\ active = {} /\ ppc = "start" /\ raceFired = FALSE
  /\ pst = [i \in Pages |-> "idle"]
  /\ attempt = [i \in Pages |-> 0]
  /\ waitMs = [i \in Pages |-> 0]
  /\ rateRun = [i \in Pages |-> 0]
  /\ qres = [i \in Pages |-> NoResult]
  /\ starts = [i \in Pages |-> 0]
  /\ okPages = {}
  /\ wires = <<>> /\ components = <<>> /\ crossPanelWires = <<>> /\ warnings = <<>>
  /\ skippedPages = 0 /\ completedPages = 0
  /\ resultWires = <<>> /\ resultComponents = <<>>
  /\ menu = "none" /\ pool = <<>> /\ graphs = <<>> /\ resolved = <<>> /\ gpc = "idle"
  /\ NormIdle
  /\ BfsIdle

\* processPage(i) and the extractWithVision it calls, up to their first await
WorkerEntry(i) ==
  LET pg == DocPage(doc, i)
  IN IF ~pg.image THEN [pst |-> "settling", attempt |-> 0, qres |-> NoResult]
     ELSE IF ~apiKey THEN [pst |-> "returned", attempt |-> 1, qres |-> FailResult("nokey")]
     ELSE [pst |-> "fetch", attempt |-> 1, qres |-> NoResult]

RECURSIVE MissingImageWarnings(_, _)
\* the warnings the workers of pages lo..hi push on entry, in start order
MissingImageWarnings(lo, hi) ==
  IF lo > hi THEN <<>>
  ELSE (IF DocPage(doc, lo).image THEN <<>> ELSE <<PageWarning(lo, "immagine mancante")>>)
       \o MissingImageWarnings(lo + 1, hi)

\* startNext, called n times in a row
StartWorkers(n) ==
  LET hi == IF index + n > NPages THEN NPages - 1 ELSE index + n - 1
      S  == index..hi
  IN /\ index' = hi + 1
     /\ active' = active \cup S
     /\ pst' = [i \in Pages |-> IF i \in S THEN WorkerEntry(i).pst ELSE pst[i]]
     /\ attempt' = [i \in Pages |-> IF i \in S THEN WorkerEntry(i).attempt ELSE attempt[i]]
     /\ UNCHANGED waitMs
     /\ qres' = [i \in Pages |-> IF i \in S THEN WorkerEntry(i).qres ELSE qres[i]]
     /\ starts' = [i \in Pages |-> IF i \in S THEN starts[i] + 1 ELSE starts[i]]
     /\ warnings' = warnings \o MissingImageWarnings(index, hi)

\* a pool whose for loop ignores limit and starts every page
StartPoolAll ==
  /\ ppc = "start"
  /\ StartWorkers(NPages)
  /\ ppc' = IF active' = {} THEN "done" ELSE "await"
  /\ raceFired' = FALSE
  /\ UNCHANGED <<doc, limit, apiKey, rateRun, okPages, wires, components, crossPanelWires,
                 skippedPages, completedPages, resultWires, resultComponents>>
  /\ UNCHANGED <<gvars, nvars, bvars>>

\* parseInt of a text that is no number
NotANumber == -2

\* how often the body of for (let i = 0; i < Math.min(limit, total); i++) runs:
\* Math.min is NaN for a NaN limit, and i < NaN is false
PoolIterations(n, total) ==
  IF n = NotANumber THEN 0
  ELSE IF n < 0 THEN 0
  ELSE IF n < total THEN n ELSE total

\* runBatchPool up to its first await: the for loop, then the loop test
StartPool ==
  /\ ppc = "start"
  /\ StartWorkers(PoolIterations(limit, NPages))
  /\ ppc' = IF active' = {} THEN "done" ELSE "await"
  /\ raceFired' = FALSE
  /\ UNCHANGED <<doc, limit, apiKey, rateRun, okPages, wires, components, crossPanelWires,
                 skippedPages, completedPages, resultWires, resultComponents>>
  /\ UNCHANGED <<gvars, nvars, bvars>>

\* a backoff that waits the same two seconds before every retry
BackoffWaitFixed(n) == 2000

\* const waitMs = Math.pow(2, attempt) * 1000
BackoffWaitMs(n) == (2 ^ n) * 1000

\* an extractor whose catch clause rethrows what it does not retry
RespondRethrow(i, r) ==
  /\ pst[i] = "fetch"
  /\ LET retry == attempt[i] < VISION_MAX_RETRIES
         next  == IF r = "ok" THEN [pst |-> "returned", qres |-> OkResult]
                  ELSE IF r \in {"rate", "net"} /\ retry
                       THEN [pst |-> "backoff", qres |-> NoResult]
                  ELSE [pst |-> "returned", qres |-> [kind |-> "throw", cause |-> r]]
     IN /\ pst' = [pst EXCEPT ![i] = next.pst]
        /\ qres' = [qres EXCEPT ![i] = next.qres]
        /\ rateRun' = [rateRun EXCEPT ![i] = IF r = "rate" THEN @ + 1 ELSE 0]
        /\ waitMs' = [waitMs EXCEPT ![i] = IF next.pst = "backoff"
                                          THEN BackoffWaitMs(attempt[i]) ELSE @]
  /\ UNCHANGED <<doc, limit, apiKey, index, active, ppc, raceFired, attempt, starts, okPages,
                 wires, components, crossPanelWires, warnings, skippedPages, completedPages,
                 resultWires, resultComponents>>
  /\ UNCHANGED <<gvars, nvars, bvars>>

\* an extractor that retries a rate limit or a network failure however many
\* requests it has sent
RespondRetryAll(i, r) ==
  /\ pst[i] = "fetch"
  /\ LET retry == TRUE
         next  == CASE r = "ok" -> [pst |-> "returned", qres |-> OkResult]
                    [] r = "rate" -> IF retry THEN [pst |-> "backoff", qres |-> NoResult]
                                     ELSE [pst |-> "returned", qres |-> FailResult("rate")]
                    [] r = "net" -> IF retry THEN [pst |-> "backoff", qres |-> NoResult]
                                    ELSE [pst |-> "returned", qres |-> FailResult("net")]
                    [] OTHER -> [pst |-> "returned", qres |-> FailResult(r)]
     IN /\ pst' = [pst EXCEPT ![i] = next.pst]
        /\ qres' = [qres EXCEPT ![i] = next.qres]
        /\ rateRun' = [rateRun EXCEPT ![i] = IF r = "rate" THEN @ + 1 ELSE 0]
        /\ waitMs' = [waitMs EXCEPT ![i] = IF next.pst = "backoff"
                                          THEN BackoffWaitMs(attempt[i]) ELSE @]
  /\ UNCHANGED <<doc, limit, apiKey, index, active, ppc, raceFired, attempt, starts, okPages,
                 wires, components, crossPanelWires, warnings, skippedPages, completedPages,
                 resultWires, resultComponents>>
  /\ UNCHANGED <<gvars, nvars, bvars>>

\* the request of page i is answered: the body of the retry loop after await fetch
Respond(i, r) ==
  /\ pst[i] = "fetch"
  /\ LET retry == attempt[i] < VISION_MAX_RETRIES
         next  == CASE r = "ok" -> [pst |-> "returned", qres |-> OkResult]
                    [] r = "rate" -> IF retry THEN [pst |-> "backoff", qres |-> NoResult]
                                     ELSE [pst |-> "returned", qres |-> FailResult("rate")]
                    [] r = "net" -> IF retry THEN [pst |-> "backoff", qres |-> NoResult]
                                    ELSE [pst |-> "returned", qres |-> FailResult("net")]
                    [] OTHER -> [pst |-> "returned", qres |-> FailResult(r)]
     IN /\ pst' = [pst EXCEPT ![i] = next.pst]
        /\ qres' = [qres EXCEPT ![i] = next.qres]
        /\ rateRun' = [rateRun EXCEPT ![i] = IF r = "rate" THEN @ + 1 ELSE 0]
        /\ waitMs' = [waitMs EXCEPT ![i] = IF next.pst = "backoff"
                                          THEN BackoffWaitMs(attempt[i]) ELSE @]
  /\ UNCHANGED <<doc, limit, apiKey, index, active, ppc, raceFired, attempt, starts, okPages,
                 wires, components, crossPanelWires, warnings, skippedPages, completedPages,
                 resultWires, resultComponents>>
  /\ UNCHANGED <<gvars, nvars, bvars>>

\* the timer of the backoff fires: continue, the next iteration sends its request
BackoffElapsed(i) ==
  /\ pst[i] = "backoff"
  /\ pst' = [pst EXCEPT ![i] = "fetch"]
  /\ attempt' = [attempt EXCEPT ![i] = @ + 1]
  /\ UNCHANGED waitMs
  /\ UNCHANGED <<doc, limit, apiKey, index, active, ppc, raceFired, rateRun, qres, starts,
                 okPages, wires, components, crossPanelWires, warnings, skippedPages,
                 completedPages, resultWires, resultComponents>>
  /\ UNCHANGED <<gvars, nvars, bvars>>

\* processPage after await extractWithVision, up to its return or to await reportProgress
ProcessResult(i) ==
  /\ pst[i] = "returned"
  /\ LET q == QwenResult(doc, i, qres[i])
         matchesPanel == PanelId = "" \/ pageMatchesPanelId(q.ubicazione, PanelId)
         relevantWires == SelectSeq(q.wires, hasRimando)
         foglioWarning == IF q.foglio = Undefined
                          THEN <<PageWarning(i, "foglio illeggibile")>> ELSE <<>>
     IN IF qres[i].kind = "throw" THEN
          /\ warnings' = Append(warnings, PageWarning(i, "errore"))
          /\ completedPages' = completedPages + 1
          /\ pst' = [pst EXCEPT ![i] = "report"]
          /\ UNCHANGED <<wires, components, crossPanelWires, skippedPages>>
        ELSE IF ~q.has_schema THEN
          /\ skippedPages' = skippedPages + 1
          /\ pst' = [pst EXCEPT ![i] = "settling"]
          /\ UNCHANGED <<wires, components, crossPanelWires, warnings, completedPages>>
        ELSE IF ~matchesPanel THEN
          /\ crossPanelWires' = crossPanelWires \o relevantWires
          /\ skippedPages' = skippedPages + 1
          /\ pst' = [pst EXCEPT ![i] = "settling"]
          /\ UNCHANGED <<wires, components, warnings, completedPages>>
        ELSE
          /\ wires' = wires \o q.wires
          /\ components' = components \o q.components
          /\ warnings' = warnings \o foglioWarning \o q.warnings
          /\ completedPages' = completedPages + 1
          /\ pst' = [pst EXCEPT ![i] = "report"]
          /\ UNCHANGED <<crossPanelWires, skippedPages>>
  /\ okPages' = IF qres[i].kind = "ok" THEN okPages \cup {i} ELSE okPages
  /\ UNCHANGED <<doc, limit, apiKey, index, active, ppc, raceFired, attempt, waitMs, rateRun, qres,
                 starts, resultWires, resultComponents>>
  /\ UNCHANGED <<gvars, nvars, bvars>>

\* await reportProgress returns: processPage and the worker return
ReportDone(i) ==
  /\ pst[i] = "report"
  /\ pst' = [pst EXCEPT ![i] = "settling"]
  /\ UNCHANGED <<doc, limit, apiKey, index, active, ppc, raceFired, attempt, waitMs, rateRun, qres,
                 starts, okPages, wires, components, crossPanelWires, warnings, skippedPages,
                 completedPages, resultWires, resultComponents>>
  /\ UNCHANGED <<gvars, nvars, bvars>>

\* the finally callback of the worker's promise: active.delete(p); p settles, and
\* with it the promise of Promise.race(active) the pool is waiting on
WorkerSettle(i) ==
  /\ pst[i] = "settling"
  /\ pst' = [pst EXCEPT ![i] = "settled"]
  /\ active' = active \ {i}
  /\ raceFired' = TRUE
  /\ attempt' = [attempt EXCEPT ![i] = 0]
  /\ waitMs' = [waitMs EXCEPT ![i] = 0]
  /\ rateRun' = [rateRun EXCEPT ![i] = 0]
  /\ qres' = [qres EXCEPT ![i] = NoResult]
  /\ UNCHANGED <<doc, limit, apiKey, index, ppc, starts, okPages, wires, components,
                 crossPanelWires, warnings, skippedPages, completedPages, resultWires,
                 resultComponents>>
  /\ UNCHANGED <<gvars, nvars, bvars>>

\* a pool that does not refill after a worker settles
PoolResumeNoStart ==
  /\ ppc = "await"
  /\ raceFired
  /\ ppc' = IF active = {} THEN "done" ELSE "await"
  /\ raceFired' = FALSE
  /\ UNCHANGED <<doc, limit, apiKey, index, active, pst, attempt, waitMs, qres, starts, warnings,
                 rateRun, okPages, wires, components, crossPanelWires,
                 skippedPages, completedPages, resultWires, resultComponents>>
  /\ UNCHANGED <<gvars, nvars, bvars>>

\* runBatchPool after await Promise.race(active): startNext, then the loop test
PoolResume ==
  /\ ppc = "await"
  /\ raceFired
  /\ StartWorkers(1)
  /\ ppc' = IF active' = {} THEN "done" ELSE "await"
  /\ raceFired' = FALSE
  /\ UNCHANGED <<doc, limit, apiKey, rateRun, okPages, wires, components, crossPanelWires,
                 skippedPages, completedPages, resultWires, resultComponents>>
  /\ UNCHANGED <<gvars, nvars, bvars>>

\* extractWirelistToExcel after await runBatchPool: the panel tag, normalizeWires on
\* both pools, normalizeComponents.  The document has no text layer, so the
\* heuristic fallback does not run; resultWires is the variable wires reassigned.
\* wires = wireResult.wires; warnings.push(...wireResult.warnings)
TakeWireResult(wireResult) ==
  /\ resultWires' = wireResult.wires
  /\ warnings' = warnings \o wireResult.warnings

Finish ==
  /\ ppc = "done"
  /\ TakeWireResult(normalizeWires([k \in 1..Len(wires) |-> [wires[k] EXCEPT !.panel = TRUE]]
                                     \o crossPanelWires,
                                   Len(crossPanelWires) > 0))
  /\ resultComponents' = normalizeComponents(components)
  /\ ppc' = "finished"
  /\ UNCHANGED <<doc, limit, apiKey, index, active, raceFired, pst, attempt, waitMs, rateRun, qres,
                 starts, okPages, wires, components, crossPanelWires, skippedPages,
                 completedPages>>
  /\ UNCHANGED <<gvars, nvars, bvars>>

RunNext ==
  \/ StartPool
  \/ \E i \in Pages : \E r \in Responses : Respond(i, r)
  \/ \E i \in Pages : BackoffElapsed(i)
  \/ \E i \in Pages : ProcessResult(i)
  \/ \E i \in Pages : ReportDone(i)
  \/ \E i \in Pages : WorkerSettle(i)
  \/ PoolResume
  \/ Finish

SpecRun == RunInit /\ [][RunNext]_vars

\* the steps of the pool and of its workers
PoolStep ==
  \/ StartPool
  \/ \E i \in Pages : \E r \in Responses : Respond(i, r)
  \/ \E i \in Pages : BackoffElapsed(i)
  \/ \E i \in Pages : ProcessResult(i)
  \/ \E i \in Pages : ReportDone(i)
  \/ \E i \in Pages : WorkerSettle(i)
  \/ PoolResume

\* every request is answered, every timer fires and every ready callback runs
SpecRunFair == SpecRun /\ WF_vars(PoolStep)

(***************************************************************************)
(* The run from its first step: the source file is read before the pool    *)
(* starts, and the workbook is written after the post-processing.  The     *)
(* document "missing" is a file_path that cannot be read.                   *)
(***************************************************************************)

ReadInit ==
  /\ doc \in Docs \cup {"missing"}
  /\ limit \in 1..MaxLimit
  /\ apiKey \in BOOLEAN
  /\ index = 0 /\ active = {} /\ ppc = "read" /\ raceFired = FALSE
  /\ pst = [i \in Pages |-> "idle"]
  /\ attempt = [i \in Pages |-> 0]
  /\ waitMs = [i \in Pages |-> 0]
  /\ rateRun = [i \in Pages |-> 0]
  /\ qres = [i \in Pages |-> NoResult]
  /\ starts = [i \in Pages |-> 0]
  /\ okPages = {}
  /\ wires = <<>> /\ components = <<>> /\ crossPanelWires = <<>> /\ warnings = <<>>
  /\ skippedPages = 0 /\ completedPages = 0
  /\ resultWires = <<>> /\ resultComponents = <<>>
  /\ menu = "none" /\ pool = <<>> /\ graphs = <<>> /\ resolved = <<>> /\ gpc = "idle"
  /\ NormIdle
  /\ BfsIdle

\* the values VISION_CONCURRENCY can have: parseInt of "abc", "-3", "0", "1", ...
PoolSizes == {NotANumber, -3, 0} \cup (1..MaxLimit)

\* a run whose pool size is whatever the environment gave
PoolInit ==
  /\ doc \in Docs
  /\ limit \in PoolSizes
  /\ apiKey \in BOOLEAN
  /\ index = 0 /\ active = {} /\ ppc = "start" /\ raceFired = FALSE
  /\ pst = [i \in Pages |-> "idle"]
  /\ attempt = [i \in Pages |-> 0]
  /\ waitMs = [i \in Pages |-> 0]
  /\ rateRun = [i \in Pages |-> 0]
  /\ qres = [i \in Pages |-> NoResult]
  /\ starts = [i \in Pages |-> 0]
  /\ okPages = {}
  /\ wires = <<>> /\ components = <<>> /\ crossPanelWires = <<>> /\ warnings = <<>>
  /\ skippedPages = 0 /\ completedPages = 0
  /\ resultWires = <<>> /\ resultComponents = <<>>
  /\ menu = "none" /\ pool = <<>> /\ graphs = <<>> /\ resolved = <<>> /\ gpc = "idle"
  /\ NormIdle
  /\ BfsIdle

SpecPool == PoolInit /\ [][RunNext]_vars

\* a read step that goes on to the pool whether or not the file was read
ReadSourceAnyway ==
  /\ ppc = "read"
  /\ ppc' = "start"
  /\ UNCHANGED <<doc, limit, apiKey, index, active, raceFired, pst, attempt, waitMs, rateRun, qres,
                 starts, okPages, wires, components, crossPanelWires, warnings, skippedPages,
                 completedPages, resultWires, resultComponents>>
  /\ UNCHANGED <<gvars, nvars, bvars>>

\* the try block that reads the source: extractPdfText, loadImageAsBase64 or
\* fs.readFile; a failure is rethrown as "Impossibile leggere il file"
ReadSource ==
  /\ ppc = "read"
  /\ ppc' = IF doc = "missing" THEN "rejected" ELSE "start"
  /\ UNCHANGED <<doc, limit, apiKey, index, active, raceFired, pst, attempt, waitMs, rateRun, qres,
                 starts, okPages, wires, components, crossPanelWires, warnings, skippedPages,
                 completedPages, resultWires, resultComponents>>
  /\ UNCHANGED <<gvars, nvars, bvars>>

\* await buildWorkbook(...): the workbook is written
BuildWorkbook ==
  /\ ppc = "finished"
  /\ ppc' = "written"
  /\ UNCHANGED <<doc, limit, apiKey, index, active, raceFired, pst, attempt, waitMs, rateRun, qres,
                 starts, okPages, wires, components, crossPanelWires, warnings, skippedPages,
                 completedPages, resultWires, resultComponents>>
  /\ UNCHANGED <<gvars, nvars, bvars>>

ReadNext == ReadSource \/ RunNext \/ BuildWorkbook

SpecRead == ReadInit /\ [][ReadNext]_vars

(***************************************************************************)
(* normalizeWires on the two pools a run hands to it: the segments of the   *)
(* target panel's pages, tagged _panel, followed by the reference-bearing   *)
(* segments of the other panels' pages; then normalizeWires once more on    *)
(* the list it returned.                                                    *)
(***************************************************************************)

\* the longest pool, both parts together
MaxRaw == 3

\* a raw segment with a color
ColoredWire(id, from, to, color, page, foglio) ==
  [WireRecord(id, from, to, page, foglio) EXCEPT !.color = color]

Families == {"xt", "numeric", "refs", "ids", "dups", "comps", "composite", "single"}

\* what the pages of the target panel may hold
TargetMenu(f) ==
  CASE f = "xt" ->
         { WireRecord("50", "-XT2.1", "KM1.1", 1, 100),
           WireRecord("51", "XT12:3", "KM1.2", 1, 100),
           WireRecord("52", "xt2.5", "-XT16.4", 1, 100),
           WireRecord("53", "XT112.1", "KM1.3", 2, 101) }
    [] f = "numeric" ->
         { WireRecord("60", "QM1.1", " 108.3 ", 1, 100),
           WireRecord("61", "12", "14,5", 1, 100),
           WireRecord("PE", "QM1.1", "KM2.1", 1, 100),
           WireRecord("63", "", "KM3.1", 1, 100),
           ColoredWire(" 64 ", "QM1.2 ", "KM2.2", " BK ", 1, 100) }
    [] f = "ids" ->
         { WireRecord("W12", "QM1.1", "KM2.1", 1, 100),
           WireRecord(" w3", "QM1.2", "KM2.2", 1, 100),
           WireRecord("pe ", "QM1.3", "KM2.3", 1, 100),
           WireRecord("Pen", "QM1.4", "KM2.4", 1, 100),
           WireRecord("N", "QM1.5", "KM2.5", 1, 100),
           WireRecord("L1", "QM1.6", "KM2.6", 1, 100),
           WireRecord(" l3 ", "QM1.7", "KM2.7", 1, 100),
           WireRecord("N1", "QM1.8", "KM2.8", 1, 100) }
    [] f = "comps" -> {}
    [] f = "single" ->
         { WireRecord("24", "QM102.1", "rimando 108", 1, 100),
           WireRecord("24", "rimando 100", "KM45.2", 2, 108),
           ColoredWire("24", "KM45.2", "QM102.1", "BU", 3, 109),
           WireRecord("24", "KM45.2", "KM45.2", 2, 108),
           WireRecord("24", "KA9.1", "rimando 300", 1, 100),
           WireRecord("26", "KA2.1", "KA3.1", 1, 100) }
    [] f = "composite" ->
         { WireRecord("105.8 / 24", "QM1.1", "KM2.1", 1, 100),
           [WireRecord("108.8/L1", "QM1.2", "KM2.2", 1, 100) EXCEPT !.gauge = "2.5"],
           WireRecord("24", "QM1.1", "KM2.1", 2, 101) }
    [] f = "dups" ->
         { WireRecord("70", "KA1.1", "KA2.1", 1, 100),
           ColoredWire("70", "KA1.1", "KA2.1", "RD", 1, 100),
           [WireRecord("70", "KA1.1", "KA2.1", 2, 100) EXCEPT !.note = "zoom"],
           [ColoredWire("70", "KA1.1", "KA2.1", "BK", 2, 100) EXCEPT !.cable = "C1"],
           WireRecord("70", "KA2.1", "KA1.1", 1, 100) }
    [] OTHER ->
         { WireRecord("24", "QM102.1", "rimando 108", 1, 100),
           WireRecord("25", "KA1.1", "rimando 300", 1, 100),
           WireRecord("26", "KA2.1", "KA3.1", 1, 100) }

\* what the pages of the other panels may put into the cross-panel pool
CrossMenu(f) ==
  CASE f = "xt" ->
         { WireRecord("54", "rimando 100", "XT2.9", 5, 200) }
    [] f = "numeric" ->
         { WireRecord("60", "Rimando 100", "KM9.1", 5, 108) }
    [] f = "ids" -> {}
    [] f = "dups" -> {}
    [] f = "comps" -> {}
    [] f = "composite" -> {}
    [] f = "single" -> {}
    [] OTHER ->
         { WireRecord("24", "rimando 100", "KM45.2", 5, 108),
           ColoredWire("24", "QM102.1", "rimando 108", "RD", 6, 100),
           WireRecord("28", "rimando 201", "KB1.1", 7, 200),
           WireRecord("28", "rimando 200", "KB2.1", 8, 201) }

\* a raw component with its quantity, note and wire identifiers
FullComponent(ref, description, quantity, note, ws, page) ==
  [ComponentRecord(ref, description, page) EXCEPT
     !.quantity = quantity, !.note = note, !.wires = ws]

\* what the pages of the target panel may hold as components
ComponentMenu(f) ==
  IF f = "comps"
  THEN { FullComponent("QM1", "Magnetotermico", 1, "quadro", <<"24">>, 1),
         FullComponent("QM1:2", "", 2, "", <<" 24 ", "25">>, 2),
         FullComponent(" QM1", "", Undefined, "riserva", <<>>, Undefined),
         FullComponent("12.5", "", Undefined, "", <<>>, 1),
         FullComponent("-7", "Morsetto", 1, "", <<"26">>, 1) }
  ELSE {}

NormInit ==
  /\ family \in Families
  /\ rawWires = <<>> /\ rawCrossWires = <<>>
  /\ normResult = [wires |-> <<>>, warnings |-> <<>>]
  /\ normResult2 = [wires |-> <<>>, warnings |-> <<>>]
  /\ npc = "input"
  /\ rawComponents = <<>> /\ compResult = <<>>
  /\ menu = "none" /\ pool = <<>> /\ graphs = <<>> /\ resolved = <<>> /\ gpc = "idle"
  /\ RunIdle
  /\ BfsIdle

\* wires.push(...qwenResult.wires) for a page of the target panel
AddTargetWire ==
  /\ npc = "input"
  /\ Len(rawWires) + Len(rawCrossWires) < MaxRaw
  /\ \E w \in TargetMenu(family) : rawWires' = Append(rawWires, w)
  /\ UNCHANGED <<family, rawCrossWires, normResult, normResult2, npc, rawComponents, compResult>>
  /\ UNCHANGED <<gvars, rvars, bvars>>

\* crossPanelWires.push(...relevantWires) for a page of another panel
AddCrossWire ==
  /\ npc = "input"
  /\ Len(rawWires) + Len(rawCrossWires) < MaxRaw
  /\ \E w \in CrossMenu(family) : rawCrossWires' = Append(rawCrossWires, w)
  /\ UNCHANGED <<family, rawWires, normResult, normResult2, npc, rawComponents, compResult>>
  /\ UNCHANGED <<gvars, rvars, bvars>>

\* allWiresForResolution: the target pool with the _panel tag, then the cross-panel pool
AllWiresForResolution(ws, cross) ==
  [k \in 1..Len(ws) |-> [ws[k] EXCEPT !.panel = TRUE]] \o cross

\* components.push(...qwenResult.components) for a page of the target panel
AddComponent ==
  /\ npc = "input"
  /\ Len(rawComponents) < MaxRaw
  /\ \E c \in ComponentMenu(family) : rawComponents' = Append(rawComponents, c)
  /\ UNCHANGED <<family, rawWires, rawCrossWires, normResult, normResult2, npc, compResult>>
  /\ UNCHANGED <<gvars, rvars, bvars>>

\* const wireResult = normalizeWires(allWiresForResolution, crossPanelWires.length > 0);
\* components = normalizeComponents(components)
Normalize ==
  /\ npc = "input"
  /\ normResult' = normalizeWires(AllWiresForResolution(rawWires, rawCrossWires),
                                  Len(rawCrossWires) > 0)
  /\ compResult' = normalizeComponents(rawComponents)
  /\ npc' = "normalized"
  /\ UNCHANGED <<family, rawWires, rawCrossWires, normResult2, rawComponents>>
  /\ UNCHANGED <<gvars, rvars, bvars>>

\* normalizeWires on the list the first call returned, as one pool
Renormalize ==
  /\ npc = "normalized"
  /\ normResult2' = normalizeWires(normResult.wires, FALSE)
  /\ npc' = "renormalized"
  /\ UNCHANGED <<family, rawWires, rawCrossWires, normResult, rawComponents, compResult>>
  /\ UNCHANGED <<gvars, rvars, bvars>>

NormNext == AddTargetWire \/ AddCrossWire \/ AddComponent \/ Normalize \/ Renormalize

SpecNorm == NormInit /\ [][NormNext]_vars

(***************************************************************************)
(* Properties of the resolution pass                                       *)
(***************************************************************************)

\* the edges of a graph as unordered pairs of node names
EdgePairs(g) == {{e.from, e.to} : e \in Range(g.edges)}

RealNames(g) == {n.name : n \in {x \in Range(g.nodes) : x.type # "reference"}}
RefNames(g) == {n.name : n \in {x \in Range(g.nodes) : x.type = "reference"}}

\* the records resolved for one wire identifier, and the pairs they connect
ResolvedOf(id) == SelectSeq(resolved, LAMBDA r : r.id = id)
ResolvedPairs(id) == {{r.from, r.to} : r \in Range(ResolvedOf(id))}

RECURSIVE RefClosure(_, _)
\* S with every reference node that an edge joins to a node of S, repeatedly
RefClosure(g, S) ==
  LET more == {m \in RefNames(g) : \E n \in S : {n, m} \in EdgePairs(g)}
  IN IF more \subseteq S THEN S ELSE RefClosure(g, S \cup more)

\* a path from a to b all of whose intermediate nodes are reference nodes
RefOnlyPath(g, a, b) == \E n \in RefClosure(g, {a}) : {n, b} \in EdgePairs(g)

\* the graph has exactly the edges A-r1, r1-r2, r2-B, r2-C
PhantomShape(g, A, B, C, r1, r2) ==
  /\ Cardinality({A, B, C}) = 3
  /\ r1 # r2
  /\ EdgePairs(g) = {{A, r1}, {r1, r2}, {r2, B}, {r2, C}}

\* C1 as stated: in the graph A-r1, r1-r2, r2-B, r2-C the resolved connections are
\* exactly A<->B and A<->C, and B<->C is not among them
C1_OnlyThroughLink ==
  gpc = "resolved" =>
    \A i \in 1..Len(graphs) :
      \A A, B, C \in RealNames(graphs[i]) : \A r1, r2 \in RefNames(graphs[i]) :
        PhantomShape(graphs[i], A, B, C, r1, r2)
          => ResolvedPairs(graphs[i].id) = {{A, B}, {A, C}}

\* C1 amended: in the graph A-r1, r1-r2, r2-B, r2-C the resolved connections are
\* exactly A<->B, A<->C and B<->C, one record each: B and C hang on the same
\* reference node r2, so the reference-only path B-r2-C connects them
C1_SharedReferenceConnects ==
  gpc = "resolved" =>
    \A i \in 1..Len(graphs) :
      \A A, B, C \in RealNames(graphs[i]) : \A r1, r2 \in RefNames(graphs[i]) :
        PhantomShape(graphs[i], A, B, C, r1, r2)
          => /\ ResolvedPairs(graphs[i].id) = {{A, B}, {A, C}, {B, C}}
             /\ Len(ResolvedOf(graphs[i].id)) = 3

C1_Witness ==
  /\ gpc = "resolved"
  /\ \E i \in 1..Len(graphs) :
       \E A, B, C \in RealNames(graphs[i]) : \E r1, r2 \in RefNames(graphs[i]) :
         PhantomShape(graphs[i], A, B, C, r1, r2)

\* C2: for every graph with at least two real nodes and every two distinct real
\* nodes a and b, a connection between a and b is resolved if and only if a path
\* joins them whose intermediate nodes are all reference nodes
C2_BoundedResolution ==
  gpc = "resolved" =>
    \A i \in 1..Len(graphs) :
      Cardinality(RealNames(graphs[i])) >= 2 =>
        \A a, b \in RealNames(graphs[i]) :
          a # b => (({a, b} \in ResolvedPairs(graphs[i].id)) <=> RefOnlyPath(graphs[i], a, b))

\* the chain A-r1-B-r2-C with r1 # r2 resolved to A<->B and B<->C only
C2_Witness ==
  /\ gpc = "resolved"
  /\ \E i \in 1..Len(graphs) :
       \E A, B, C \in RealNames(graphs[i]) : \E r1, r2, r3 \in RefNames(graphs[i]) :
         /\ Cardinality({A, B, C}) = 3
         /\ Cardinality({r1, r2, r3}) = 3
         /\ EdgePairs(graphs[i]) = {{A, r1}, {r1, r2}, {r2, B}, {B, r3}, {r3, C}}
         /\ ResolvedPairs(graphs[i].id) = {{A, B}, {B, C}}

\* the endpoint is a reference to the sheet, in a form normalizeRimando reads
RefersToSheet(endpoint, sheet) ==
  LET m == RimandoMatch(Trim(endpoint)) IN m[1] /\ ParseInt(m[2]) = sheet

\* the segments i and j of the pool carry the same identifier, both have a
\* reference to sheet 108, and i was emitted from sheet 104, j from sheet 110
TwoRefsTo108(i, j) ==
  /\ Trim(pool[i].id) = Trim(pool[j].id)
  /\ pool[i].foglio = 104
  /\ pool[j].foglio = 110
  /\ RefersToSheet(pool[i].from, 108) \/ RefersToSheet(pool[i].to, 108)
  /\ RefersToSheet(pool[j].from, 108) \/ RefersToSheet(pool[j].to, 108)

\* the end of a segment that is not the reference to the sheet
OtherEnd(w, sheet) == IF RefersToSheet(w.to, sheet) THEN Trim(w.from) ELSE Trim(w.to)

C5_ReferencesNeverMerged ==
  gpc # "input" =>
    \A i \in 1..Len(graphs) :
      \A n1, n2 \in Range(graphs[i].nodes) :
        (n1.type = "reference" /\ n2.type = "reference" /\ n1.page # n2.page)
          => n1.name # n2.name

(***************************************************************************)
(* Properties of the extraction run                                        *)
(***************************************************************************)

\* the pages whose worker has started and whose promise has not settled
InFlight == {i \in Pages : pst[i] \notin {"idle", "settled"}}

\* how many warnings of the run name page i
PageWarnings(i) ==
  Cardinality({k \in 1..Len(warnings) :
                 "page" \in DOMAIN warnings[k] /\ warnings[k].page = PageNum(i)})

\* how many records of a pool were read from page i
PageRecords(seq, i) == Cardinality({k \in 1..Len(seq) : seq[k].page = PageNum(i)})

\* how many times x occurs in seq
Count(seq, x) == Cardinality({k \in 1..Len(seq) : seq[k] = x})

\* the two sequences hold the same records the same number of times
SameRecords(s1, s2) ==
  /\ Len(s1) = Len(s2)
  /\ \A x \in Range(s1) \cup Range(s2) : Count(s1, x) = Count(s2, x)

RECURSIVE PagesConcat(_, _, _)
\* the concatenation of Op(i) over the pages i of S from page lo on
PagesConcat(Op(_), S, lo) ==
  IF lo >= NPages THEN <<>>
  ELSE (IF lo \in S THEN Op(lo) ELSE <<>>) \o PagesConcat(Op, S, lo + 1)

\* what page i of the document gives each pool when it is recognized
RecognizedPage(i) == QwenResult(doc, i, OkResult)
OnTargetPanel(i) ==
  RecognizedPage(i).has_schema /\ pageMatchesPanelId(RecognizedPage(i).ubicazione, PanelId)
OnOtherPanel(i) ==
  RecognizedPage(i).has_schema /\ ~pageMatchesPanelId(RecognizedPage(i).ubicazione, PanelId)
TargetWiresOf(i) == IF OnTargetPanel(i) THEN RecognizedPage(i).wires ELSE <<>>
TargetComponentsOf(i) == IF OnTargetPanel(i) THEN RecognizedPage(i).components ELSE <<>>
CrossWiresOf(i) ==
  IF OnOtherPanel(i) THEN SelectSeq(RecognizedPage(i).wires, hasRimando) ELSE <<>>

\* C3: in the example document, once both schematic pages have been recognized and
\* the run has finished, the final wire list is exactly one record, its id is "24"
\* and its two ends are "QM102.1" and "KM45.2", in whatever order the pages completed
C3_EndToEndExample ==
  (ppc = "finished" /\ doc = "example" /\ {0, 1} \subseteq okPages) =>
    /\ Len(resultWires) = 1
    /\ resultWires[1].id = "24"
    /\ {resultWires[1].from, resultWires[1].to} = {"QM102.1", "KM45.2"}

\* the example run has finished and the page of sheet 108 completed before the
\* page of sheet 100
C3_Witness ==
  /\ ppc = "finished" /\ doc = "example" /\ {0, 1} \subseteq okPages
  /\ Len(wires) = 2 /\ wires[1].page = PageNum(1) /\ wires[2].page = PageNum(0)
  /\ Len(resultWires) = 1

\* C6: the number of page workers that have started and not yet settled, those in
\* retry backoff included, never exceeds limit
C6_BoundedConcurrency == Cardinality(InFlight) <= limit

\* the pool is full, a page is waiting for a slot and a worker is in backoff
C6_Witness ==
  /\ limit >= 2
  /\ Cardinality(InFlight) = limit
  /\ index < NPages
  /\ \E i \in Pages : pst[i] = "backoff"

\* the state part of C7: no page is started twice, the pages started are the
\* first index of them, and the pool has resolved only if every page was started
\* once and has settled
C7_StartedOnceSettledAll ==
  /\ \A i \in Pages : starts[i] = IF i < index THEN 1 ELSE 0
  /\ ppc \in {"done", "finished"} =>
       \A i \in Pages : starts[i] = 1 /\ pst[i] = "settled"

\* C7: the worker is started exactly once per page index, the pool's promise
\* resolves only after all workers have settled, and when every request is
\* answered and every timer fires the pool eventually resolves
C7_AllPagesProcessed == [](C7_StartedOnceSettledAll) /\ <>(ppc = "done")

\* the pool has resolved with limit below the number of pages, after two workers
\* settled before the pool was resumed once
C7_Witness ==
  /\ ppc = "done"
  /\ limit = 2 /\ limit < NPages
  /\ \A i \in Pages : starts[i] = 1 /\ pst[i] = "settled"
  /\ doc = "cross" /\ Len(wires) > 0 /\ Len(crossPanelWires) > 0

\* C8: a recognition call that has received three rate-limit responses in a row
\* has not given up: it is waiting to send the request whose success the page
\* result would come from
C8_RetrySuccess ==
  \A i \in Pages :
    rateRun[i] = 3 => pst[i] = "backoff"

\* C9: a page whose call failed with its retry budget used up has exactly one
\* warning in the warnings of the run, and no record in the target pool, the
\* components or the cross-panel pool
C9_RetryExhaustion ==
  \A i \in Pages :
    (pst[i] = "settling" /\ qres[i].kind = "fail" /\ qres[i].cause \in {"rate", "net"}) =>
      /\ PageWarnings(i) = 1
      /\ PageRecords(wires, i) = 0
      /\ PageRecords(components, i) = 0
      /\ PageRecords(crossPanelWires, i) = 0

\* C10: no call of extractWithVision ends by throwing; the pool resolves only with
\* every page dispatched and settled; and at every moment the pools hold exactly
\* the records of the pages recognized so far, whatever happened to the others
C10_PageFailureNeverFatal ==
  /\ \A i \in Pages : qres[i].kind # "throw"
  /\ ppc \in {"done", "finished"} => (index = NPages /\ \A i \in Pages : pst[i] = "settled")
  /\ SameRecords(wires, PagesConcat(TargetWiresOf, okPages, 0))
  /\ SameRecords(components, PagesConcat(TargetComponentsOf, okPages, 0))
  /\ SameRecords(crossPanelWires, PagesConcat(CrossWiresOf, okPages, 0))

\* the pool has resolved, the first page failed for good and later pages gave
\* records to the target pool and to the cross-panel pool
C10_Witness ==
  /\ ppc = "done"
  /\ doc = "cross" /\ apiKey
  /\ okPages = {1, 2}
  /\ Len(wires) > 0 /\ Len(crossPanelWires) > 0
  /\ skippedPages = 2

\* C11: a page whose call ended on unparsable content was asked at least twice
\* (the unparsable answer is retried once before the page is given up)
C11_MalformedRetriedOnce ==
  \A i \in Pages : qres[i] = FailResult("badjson") => attempt[i] >= 2

\* a segment has a reference endpoint
HasReferenceEndpoint(w) ==
  classifyEndpoint(w.from) = "reference" \/ classifyEndpoint(w.to) = "reference"

\* the step of page i that takes the recognized result of the page into the pools
TakesPage(i) == pst[i] = "returned" /\ pst'[i] # "returned" /\ qres[i].kind = "ok"

\* what C12 says the step of page i appends
AppendsByClass(i) ==
  LET pg      == DocPage(doc, i)
      stamped == [k \in 1..Len(pg.wires) |->
                    [pg.wires[k] EXCEPT !.page = PageNum(i), !.foglio = pg.foglio]]
      comps   == [k \in 1..Len(pg.components) |-> [pg.components[k] EXCEPT !.page = PageNum(i)]]
  IN IF ~pg.has_schema
     THEN wires' = wires /\ components' = components /\ crossPanelWires' = crossPanelWires
     ELSE IF pageMatchesPanelId(pg.ubicazione, PanelId)
     THEN /\ wires' = wires \o stamped
          /\ components' = components \o comps
          /\ crossPanelWires' = crossPanelWires
     ELSE /\ crossPanelWires' = crossPanelWires \o SelectSeq(stamped, HasReferenceEndpoint)
          /\ wires' = wires
          /\ components' = components

Processed(i) == i \in okPages /\ pst[i] \in {"report", "settling", "settled"}

\* C13: a processed wiring-diagram page whose sheet number is absent has its
\* segments in the pool of its panel class and a warning about the unreadable
\* sheet number in the warnings of the run
C13_UnreadableSheetNumber ==
  \A i \in Pages :
    (Processed(i) /\ DocPage(doc, i).has_schema /\ DocPage(doc, i).foglio = Undefined) =>
      /\ PageRecords(wires, i) = Len(TargetWiresOf(i))
      /\ PageRecords(crossPanelWires, i) = Len(CrossWiresOf(i))
      /\ PageWarning(i, "foglio illeggibile") \in Range(warnings)

(***************************************************************************)
(* Properties of normalizeWires                                            *)
(***************************************************************************)

\* the pool handed to normalizeWires
RawPool == AllWiresForResolution(rawWires, rawCrossWires)

\* the segments of the pool after the field normalization, the filters and the
\* terminal-block correction, before the deduplication
NormalizedSegments == CorrectedWires(FilteredWires(RawPool))

\* PanelEndpointSet: the non-reference endpoint labels of the normalized segments
\* of the target panel
PanelEndpointSet == PanelEndpoints(NormalizedSegments)

\* the list normalizeWires returns when no panel scoping applies
UnscopedWires == normalizeWires(RawPool, FALSE).wires

\* C14: when the cross-panel pool is used, the final list is the unscoped list
\* without the records that have no endpoint in PanelEndpointSet: a record with
\* both endpoints outside the set is dropped, a record with one inside is kept
C14_PanelScoping ==
  (npc # "input" /\ Len(rawCrossWires) > 0) =>
    normResult.wires = SelectSeq(UnscopedWires, LAMBDA w : TouchesPanel(PanelEndpointSet, w))

\* a row of the pool that the filters drop
RowDropped(w) == ~KeepWire(NormalizeFields(w))

\* a row of the pool with a numeric endpoint, which the field normalization relabels
RowRelabelled(w) == isNumericCoordinate(w.from) \/ isNumericCoordinate(w.to)

\* C15: when a row of the pool was dropped by a filter or had a numeric endpoint
\* relabelled, normalizeWires returned at least one warning
C15_NoSilentDiscard ==
  (npc # "input" /\ \E k \in 1..Len(RawPool) : RowDropped(RawPool[k]) \/ RowRelabelled(RawPool[k]))
    => Len(normResult.warnings) > 0

\* the identifiers with a reference-bearing segment after normalization
ReferenceBearingIds ==
  {Trim(w.id) : w \in {x \in Range(SanitizedWires(RawPool)) : HasReferenceEndpoint(x)}}

\* the identifiers for which the resolution produced a pair
ResolvedIds ==
  {r.id : r \in Range(resolveWireConnections(buildWireGraph(SanitizedWires(RawPool))))}

\* the identifiers the unresolved-reference warnings name
WarnedIds ==
  {w.id : w \in {x \in Range(normResult.warnings) : x.kind = "rimando non risolto"}}

\* C16: the unresolved-reference warnings name exactly the identifiers that have a
\* reference-bearing segment after normalization and no resolved pair
C16_UnresolvedReferences ==
  npc # "input" => WarnedIds = ReferenceBearingIds \ ResolvedIds

\* one identifier resolved through its references, another left unresolved
C16_Witness ==
  /\ npc = "normalized"
  /\ WarnedIds = {"25"}
  /\ "24" \in ReferenceBearingIds \cap ResolvedIds

\* C17: normalizeWires applied to the list a previous normalizeWires returned
\* returns the same list and no warning
C17_Idempotence ==
  npc = "renormalized" =>
    /\ normResult2.wires = normResult.wires
    /\ normResult2.warnings = <<>>

\* the terminal-block name of an endpoint, upper-cased; "" when it has none
XtNameOf(ep) == IF XtMatch(ep)[1] THEN ToUpperCase(XtMatch(ep)[3]) ELSE ""

\* the segments of the pool that pass the filters, and the names observed on them
KeptSegments == FilteredWires(RawPool)
ObservedNames ==
  ({XtNameOf(w.from) : w \in Range(KeptSegments)} \cup {XtNameOf(w.to) : w \in Range(KeptSegments)})
    \ {""}

\* the observed names whose digits are one leading digit followed by the digits of S
LongerNames(S) ==
  {L \in ObservedNames :
     \E d \in DigitSet : L = "XT" \o d \o SubSeq(S, 3, Len(S))}

\* out is what the correction makes of the endpoint ep
Rewritten(ep, out) ==
  IF XtNameOf(ep) = "" \/ LongerNames(XtNameOf(ep)) = {} THEN out = ep
  ELSE \E L \in LongerNames(XtNameOf(ep)) :
         out = XtMatch(ep)[2] \o L \o XtMatch(ep)[4]

\* id, from and to of the records of a list
Triples(ws) == {<<w.id, w.from, w.to>> : w \in Range(ws)}

\* the names the correction warning reports as rewritten, and the pairs it reports
ReportedPairs ==
  UNION {Range(w.corrections) :
           w \in {x \in Range(normResult.warnings) : x.kind = "correzione morsettiere"}}

\* C18: the records after the correction are the kept segments with every endpoint
\* whose terminal-block name S has a longer observed name (one leading digit, then
\* the digits of S) rewritten to such a name, and every other endpoint untouched;
\* the names rewritten are the names a warning reports; with XT2, XT12 and XT16
\* observed, XT2 becomes XT12 and the other two stay
C18_TerminalBlockCorrection ==
  npc # "input" =>
    /\ \A w \in Range(KeptSegments) : \E t \in Triples(SanitizedWires(RawPool)) :
         t[1] = w.id /\ Rewritten(w.from, t[2]) /\ Rewritten(w.to, t[3])
    /\ \A t \in Triples(SanitizedWires(RawPool)) : \E w \in Range(KeptSegments) :
         t[1] = w.id /\ Rewritten(w.from, t[2]) /\ Rewritten(w.to, t[3])
    /\ {q[1] : q \in ReportedPairs} = {S \in ObservedNames : LongerNames(S) # {}}
    /\ \A q \in ReportedPairs : q[2] \in LongerNames(q[1])
    /\ (ObservedNames = {"XT2", "XT12", "XT16"} /\ rawCrossWires = <<>>) =>
         /\ ReportedPairs = {<<"XT2", "XT12">>}
         /\ Triples(normResult.wires) \subseteq
              {<<"50", "-XT12.1", "KM1.1">>, <<"51", "XT12:3", "KM1.2">>,
               <<"52", "XT12.5", "-XT16.4">>}

\* XT2, XT12 and XT16 were observed and the pool has been normalized
C18_Witness ==
  /\ npc = "normalized"
  /\ ObservedNames = {"XT2", "XT12", "XT16"}
  /\ rawCrossWires = <<>>
  /\ Triples(normResult.wires) =
       {<<"50", "-XT12.1", "KM1.1">>, <<"51", "XT12:3", "KM1.2">>,
        <<"52", "XT12.5", "-XT16.4">>}

\* C19: every record normalizeWires returns, a kept direct segment or a resolved
\* connection, has a non-empty id, from and to
C19_RequiredFields ==
  \A w \in Range(normResult.wires) \cup Range(normResult2.wires) :
    Trim(w.id) # "" /\ Trim(w.from) # "" /\ Trim(w.to) # ""

\* the returned list holds a direct segment and a connection resolved through a
\* reference
C19_Witness ==
  /\ npc = "normalized"
  /\ Triples(normResult.wires) = {<<"26", "KA2.1", "KA3.1">>, <<"24", "QM102.1", "KM45.2">>}
  /\ <<"24", "QM102.1", "KM45.2">> \notin Triples(RawPool)

\* a real label: not empty, not a bare number, not a reference
IsRealLabel(ep) ==
  Trim(ep) # "" /\ ~isNumericCoordinate(ep) /\ classifyEndpoint(ep) # "reference"

\* the label a bare numeric endpoint is given
AsReference(ep) == "rimando " \o Trim(ep)

\* the edge buildWireGraph adds for a segment from one reference to another
ReferenceEdge(w) ==
  [from |-> makeRimandoUnique(normalizeRimando(AsReference(w.from)), w.foglio),
   to   |-> makeRimandoUnique(normalizeRimando(AsReference(w.to)), w.foglio),
   page |-> w.page]

\* the edges of the graphs built from the normalized pool
BuiltEdges ==
  UNION {Range(g.edges) : g \in Range(buildWireGraph(SanitizedWires(RawPool)))}

\* a segment with one bare numeric endpoint and a real label on the other side
\* is kept with the numeric endpoint relabelled as a reference
NumericEndpointRelabelled ==
  \A w \in Range(RawPool) :
    /\ (~shouldDropWireId(w.id) /\ Trim(w.id) # "" /\ IsRealLabel(w.from)
          /\ isNumericCoordinate(w.to))
         => <<Trim(w.id), Trim(w.from), AsReference(w.to)>> \in Triples(SanitizedWires(RawPool))
    /\ (~shouldDropWireId(w.id) /\ Trim(w.id) # "" /\ IsRealLabel(w.to)
          /\ isNumericCoordinate(w.from))
         => <<Trim(w.id), AsReference(w.from), Trim(w.to)>> \in Triples(SanitizedWires(RawPool))

\* a segment whose two endpoints are bare numbers is not in the normalized pool
\* and gives the graphs no edge
NumericSegmentDropped ==
  \A w \in Range(RawPool) :
    (isNumericCoordinate(w.from) /\ isNumericCoordinate(w.to)) =>
      /\ <<Trim(w.id), AsReference(w.from), AsReference(w.to)>>
           \notin Triples(SanitizedWires(RawPool))
      /\ ReferenceEdge(w) \notin BuiltEdges

\* C20: one bare numeric endpoint is relabelled as a reference and the segment
\* kept; a segment with two bare numeric endpoints is dropped and takes no part
\* in graph building
C20_NumericEndpoints ==
  npc # "input" => (NumericEndpointRelabelled /\ NumericSegmentDropped)

\* the identifier, trimmed and upper-cased, begins with W or is N, PE or PEN
ExcludedId(id) ==
  LET t == ToUpperCase(Trim(id))
  IN t # "" /\ (SubSeq(t, 1, 1) = "W" \/ t \in {"N", "PE", "PEN"})

\* the identifier, trimmed and upper-cased, is a numbered phase
NumberedPhaseId(id) == ToUpperCase(Trim(id)) \in {"L1", "L2", "L3"}

GroupOf(r) ==
  {c \in Range(NormalizedSegments) : <<c.id, c.from, c.to>> = <<r.id, r.from, r.to>>}

\* C22: no two rows of the deduplicated pool have the same id, from and to, and
\* each row of it is, but for its merged note, a row of its group that has the
\* largest number of populated fields in that group
C22_MostCompleteWins ==
  npc # "input" =>
    /\ \A i, j \in 1..Len(SanitizedWires(RawPool)) :
         i # j => <<SanitizedWires(RawPool)[i].id, SanitizedWires(RawPool)[i].from,
                    SanitizedWires(RawPool)[i].to>>
                  # <<SanitizedWires(RawPool)[j].id, SanitizedWires(RawPool)[j].from,
                      SanitizedWires(RawPool)[j].to>>
    /\ \A r \in Range(SanitizedWires(RawPool)) :
         \E c \in GroupOf(r) :
           /\ [r EXCEPT !.note = c.note] = c
           /\ \A d \in GroupOf(r) : scored(d) <= scored(c)

(***************************************************************************)
(* Properties of normalizeComponents                                       *)
(***************************************************************************)

\* the raw components with the pin suffix split off the ref
SplitComponents == [i \in 1..Len(rawComponents) |-> SplitPinSuffix(rawComponents[i])]

\* the positions of the input records whose base reference is ref
GroupAt(ref) == {i \in 1..Len(SplitComponents) : Trim(SplitComponents[i].ref) = ref}

RECURSIVE SumQuantities(_)
\* the sum of the quantities of the records at a set of positions; absent ones add nothing
SumQuantities(S) ==
  IF S = {} THEN 0
  ELSE LET i == CHOOSE x \in S : TRUE
       IN (IF SplitComponents[i].quantity = Undefined THEN 0 ELSE SplitComponents[i].quantity)
          + SumQuantities(S \ {i})

\* the non-empty wire identifiers of a list of them, trimmed
WireIdSet(ws) == {Trim(ws[k]) : k \in 1..Len(ws)} \ {""}

\* C23: no two records of the list normalizeComponents returns have the same ref,
\* and for each of them the quantity is the sum of the quantities of the input
\* records with its base reference, its wires are the union of their wires and
\* its note contains each of their non-empty notes
C23_ComponentMerge ==
  npc # "input" =>
    /\ \A i, j \in 1..Len(compResult) : i # j => compResult[i].ref # compResult[j].ref
    /\ \A r \in Range(compResult) :
         /\ GroupAt(Trim(r.ref)) # {}
         /\ (\E i \in GroupAt(Trim(r.ref)) : SplitComponents[i].quantity # Undefined) =>
              r.quantity = SumQuantities(GroupAt(Trim(r.ref)))
         /\ WireIdSet(r.wires) =
              UNION {WireIdSet(SplitComponents[i].wires) : i \in GroupAt(Trim(r.ref))}
         /\ \A i \in GroupAt(Trim(r.ref)) :
              Trim(SplitComponents[i].note) # "" =>
                Includes(r.note, Trim(SplitComponents[i].note))

\* three records of QM1, one of them with a pin suffix, have been merged into one
C23_Witness ==
  /\ npc = "normalized"
  /\ {c.ref : c \in Range(rawComponents)} = {"QM1", "QM1:2", " QM1"}
  /\ Len(compResult) = 1
  /\ compResult[1].quantity = 3
  /\ WireIdSet(compResult[1].wires) = {"24", "25"}

\* /^-?\d+(?:\.\d+)?$/ : a bare number, optionally signed or with a decimal part
IsBareNumber(ref) ==
  LET a == IF StartsWith(ref, "-") THEN 2 ELSE 1
      d == DigitRunEnd(ref, a)
      e == IF CharAt(ref, d) = "." THEN DigitRunEnd(ref, d + 1) ELSE d
  IN /\ d > a
     /\ e = Len(ref) + 1
     /\ (CharAt(ref, d) = "." => e > d + 1)

\* C24: no record normalizeComponents returns has a bare number as its ref
C24_RefNeverBareNumber ==
  \A r \in Range(compResult) : ~IsBareNumber(Trim(r.ref))

\* the connections of a wire list: identifier and unordered pair of ends
Connections(ws) == {<<w.id, {w.from, w.to}>> : w \in Range(ws)}

\* the final wire list of a run whose pages complete in page order
InPageOrderWires ==
  normalizeWires(AllWiresForResolution(PagesConcat(TargetWiresOf, okPages, 0),
                                       PagesConcat(CrossWiresOf, okPages, 0)),
                 Len(PagesConcat(CrossWiresOf, okPages, 0)) > 0).wires

\* the final components of a run whose pages complete in page order
InPageOrderComponents == normalizeComponents(PagesConcat(TargetComponentsOf, okPages, 0))

\* C25: whatever the order in which the workers completed, the connections and
\* the component references of a finished run are those of the run with the same
\* recognized pages completing in page order
C25_OrderIndependence ==
  ppc = "finished" =>
    /\ Connections(resultWires) = Connections(InPageOrderWires)
    /\ {c.ref : c \in Range(resultComponents)} = {c.ref : c \in Range(InPageOrderComponents)}

\* no request has been sent for any page and no worker has been started
NoExtractorCall ==
  \A i \in Pages : attempt[i] = 0 /\ starts[i] = 0 /\ pst[i] = "idle" /\ qres[i] = NoResult

\* C26: when the source file cannot be read, the run is rejected at its read
\* step, no request is ever sent for a page and no workbook is written
C26_InputErrorsFatal ==
  /\ [](doc = "missing" => (ppc \in {"read", "rejected"} /\ NoExtractorCall))
  /\ [][(doc = "missing" /\ ppc = "read") => ppc' = "rejected"]_vars

\* the run on an unreadable source file has been rejected
C26_Witness == doc = "missing" /\ ppc = "rejected"

\* the reference nodes of a graph
ReferenceNodes(g) == {n \in Range(g.nodes) : n.type = "reference"}

\* the sheet a reference node targets: the number after "rimando"
TargetSheet(n) ==
  IF RimandoAtMatch(n.name)[1] THEN RimandoAtMatch(n.name)[2]
  ELSE IF IsPlainRimando(n.name)
  THEN ParseInt(SubSeq(n.name, SpaceRunEnd(n.name, 8), Len(n.name)))
  ELSE Undefined

\* the sheet a reference node was emitted from, Undefined when it was not read
SourceSheet(n) == IF RimandoAtMatch(n.name)[1] THEN RimandoAtMatch(n.name)[3] ELSE n.foglio

\* the reference nodes of a graph, each with the sheet it was emitted from and
\* the sheet it targets
SheetRecords(g) ==
  {[name |-> n.name, src |-> SourceSheet(n), tgt |-> TargetSheet(n)] : n \in ReferenceNodes(g)}

\* the pairs of references that point at each other's sheet, both sheets read
ComplementaryPairs(R) ==
  {<<a.name, b.name>> : <<a, b>> \in
     {p \in R \X R : /\ p[1].src # Undefined /\ p[2].src # Undefined
                     /\ p[1].tgt # Undefined /\ p[2].tgt # Undefined
                     /\ p[1].tgt = p[2].src /\ p[2].tgt = p[1].src}}

\* the edges the cross-sheet linking added: the edges that belong to no page
LinkEdgesIn(g) == {e \in Range(g.edges) : e.page = Undefined}

SetsBackoffTimer(i) == pst[i] = "fetch" /\ pst'[i] = "backoff"

\* the extractor of page i sends a request again in this step
IssuesRetry(i) == attempt[i] >= 1 /\ attempt'[i] > attempt[i]

\* C28: the first wait of a page is 2 s and each later wait is twice the wait
\* before it, whether the retry follows a rate limit or a network failure; a
\* request is sent again only by the step in which the page's timer fires
C28_ExponentialBackoff ==
  [][\A i \in Pages :
       /\ SetsBackoffTimer(i) =>
            waitMs'[i] = IF attempt[i] = 1 THEN 2000 ELSE 2 * waitMs[i]
       /\ IssuesRetry(i) =>
            /\ pst[i] = "backoff" /\ pst'[i] = "fetch"
            /\ waitMs[i] > 0
            /\ attempt'[i] = attempt[i] + 1]_vars

\* a page is waiting 4 s for its second retry, after a rate limit and a network
\* failure or two of either
C28_Witness == \E i \in Pages : pst[i] = "backoff" /\ attempt[i] = 2 /\ waitMs[i] = 4000

RECURSIVE WithoutSpaces(_)
\* a label without its whitespace
WithoutSpaces(s) ==
  IF Len(s) = 0 THEN ""
  ELSE IF IsSpace(CharAt(s, 1)) THEN WithoutSpaces(SubSeq(s, 2, Len(s)))
  ELSE CharAt(s, 1) \o WithoutSpaces(SubSeq(s, 2, Len(s)))

RECURSIVE WithoutLeadingSigns(_)
\* a label without the '+' and '-' characters it starts with
WithoutLeadingSigns(s) ==
  IF Len(s) > 0 /\ CharAt(s, 1) \in {"+", "-"}
  THEN WithoutLeadingSigns(SubSeq(s, 2, Len(s)))
  ELSE s

\* the two labels are non-empty and equal, ignoring case, after stripping leading
\* '+'/'-' characters and whitespace from each
LabelsEqual(label, target) ==
  /\ label # "" /\ target # ""
  /\ ToUpperCase(WithoutLeadingSigns(WithoutSpaces(label)))
       = ToUpperCase(WithoutLeadingSigns(WithoutSpaces(target)))

\* C29: a processed wiring-diagram page is taken as a page of the target panel,
\* its segments in the target pool, exactly when its label and the requested panel
\* are non-empty and equal ignoring case after stripping leading '+'/'-' and
\* whitespace; a '+' or '-' inside the label is significant
C29_PanelLabelMatch ==
  \A i \in Pages :
    (Processed(i) /\ DocPage(doc, i).has_schema /\ Len(DocPage(doc, i).wires) > 0) =>
      (PageRecords(wires, i) > 0 <=> LabelsEqual(DocPage(doc, i).ubicazione, PanelId))

\* the parts of an identifier of the form "<number> / <token>": a number with an
\* optional decimal part, a slash with optional whitespace around it, and a token
CompositeParts(id) ==
  LET s == Trim(id)
      d == DigitRunEnd(s, 1)
      e == IF CharAt(s, d) = "." THEN DigitRunEnd(s, d + 1) ELSE d
      p == SpaceRunEnd(s, e)
      q == SpaceRunEnd(s, p + 1)
      token == SubSeq(s, q, Len(s))
  IN [ok |-> /\ d > 1
             /\ (CharAt(s, d) = "." => e > d + 1)
             /\ CharAt(s, p) = "/"
             /\ token # "" /\ ~Includes(token, " ") /\ ~Includes(token, "/"),
      number |-> SubSeq(s, 1, e - 1),
      token |-> token]

\* C30: every segment of the pool whose identifier is "<number> / <token>" is
\* returned under the identifier <token>, with the gauge <number> when it had no
\* gauge, and no returned segment keeps a composite identifier
C30_CompositeIdSplit ==
  npc # "input" =>
    /\ \A w \in Range(rawWires) :
         CompositeParts(w.id).ok =>
           \E r \in Range(normResult.wires) :
             /\ r.id = CompositeParts(w.id).token
             /\ r.from = w.from /\ r.to = w.to
             /\ (w.gauge = "" => r.gauge = CompositeParts(w.id).number)
    /\ \A r \in Range(normResult.wires) : ~CompositeParts(r.id).ok

\* the direct segments normalizeWires keeps: the deduplicated rows without a
\* reference endpoint
DirectSegments == {w \in Range(SanitizedWires(RawPool)) : ~HasReferenceEndpoint(w)}

\* the connections the resolution of the pool produced
ResolvedConnections ==
  Range(resolveWireConnections(buildWireGraph(SanitizedWires(RawPool))))

\* the resolved connections no direct segment states already, in either direction
AddedConnections(direct, resolvedSet) ==
  {r \in resolvedSet :
     /\ <<r.id, r.from, r.to>> \notin {<<w.id, w.from, w.to>> : w \in direct}
     /\ <<r.id, r.to, r.from>> \notin {<<w.id, w.from, w.to>> : w \in direct}}

\* C31: when no cross-panel segment was collected, the list normalizeWires returns
\* is the kept direct segments plus the resolved connections they do not state
\* already, each once: no record is removed for its endpoints
C31_SinglePanelPassthrough ==
  (npc # "input" /\ Len(rawCrossWires) = 0) =>
    /\ Range(normResult.wires) = DirectSegments \cup AddedConnections(DirectSegments, ResolvedConnections)
    /\ Len(normResult.wires)
         = Cardinality(DirectSegments \cup AddedConnections(DirectSegments, ResolvedConnections))

\* a single-panel pool with a direct segment of wire 26 and the two halves of
\* wire 24 has been normalized: both the segment and the connection are returned
C31_Witness ==
  /\ npc = "normalized" /\ family = "single" /\ Len(rawCrossWires) = 0
  /\ Triples(normResult.wires) = {<<"26", "KA2.1", "KA3.1">>, <<"24", "QM102.1", "KM45.2">>}

\* the list resolveWireConnections returned for the pool
ResolvedList == resolveWireConnections(buildWireGraph(SanitizedWires(RawPool)))

\* the identifier and the unordered pair of ends of each record, in list order
UnorderedKeys(ws) == [i \in 1..Len(ws) |-> <<ws[i].id, {ws[i].from, ws[i].to}>>]

\* id, from and to of each record, in list order
TripleList(ws) == [i \in 1..Len(ws) |-> <<ws[i].id, ws[i].from, ws[i].to>>]

\* no element of the sequence occurs twice
NoRepeat(seq) == Cardinality(Range(seq)) = Len(seq)

\* C32: the resolution emits at most one record per wire identifier and unordered
\* pair of real endpoints, and no two rows of the final list have the same id,
\* from and to
C32_UnorderedDedup ==
  npc # "input" =>
    /\ NoRepeat(UnorderedKeys(ResolvedList))
    /\ NoRepeat(TripleList(normResult.wires))

\* the two halves of wire 24 and a direct segment that states their connection
\* were in the pool: the connection was resolved once and the final list has it once
C32_Witness ==
  /\ npc = "normalized" /\ family = "single" /\ Len(rawWires) = 3
  /\ Len(ResolvedList) = 1
  /\ \E w \in Range(rawWires) : w.from = "KM45.2" /\ w.to = "QM102.1"
  /\ Len(normResult.wires) = 1

\* the pages of the segments of the pool that have the identifier id and one of
\* the two labels as an endpoint
EndpointPages(id, a, b) ==
  {w.page : w \in {x \in Range(pool) :
                     /\ x.id = id
                     /\ {Trim(x.from), Trim(x.to)} \cap {a, b} # {}
                     /\ x.page # Undefined}}

\* the smallest element of a non-empty set of page indexes
MinPage(S) == CHOOSE p \in S : \A q \in S : p <= q

\* C33: every resolved record has the identifier of a segment of the pool and, as
\* its page, the smallest page on which one of its two endpoints appears in the
\* segments of that identifier
C33_EarliestPage ==
  gpc = "resolved" =>
    \A k \in 1..Len(resolved) :
      /\ resolved[k].id \in {w.id : w \in Range(pool)}
      /\ EndpointPages(resolved[k].id, resolved[k].from, resolved[k].to) # {}
      /\ resolved[k].page
           = MinPage(EndpointPages(resolved[k].id, resolved[k].from, resolved[k].to))

\* the states of a page whose call of extractWithVision has returned
AfterReturn == {"returned", "report", "settling", "settled"}

\* a request for page i is sent in this step
SendsRequest(i) == attempt'[i] > attempt[i]

IsReferenceLabel(ep) == StartsWith(ToLowerCase(Trim(ep)), "rimando")

\* the pool has a segment one of whose ends is a reference
PoolBearsReference ==
  \E w \in Range(RawPool) : IsReferenceLabel(w.from) \/ IsReferenceLabel(w.to)

\* C35: in the list returned for a pool with a reference-bearing segment, no
\* record has a reference as from or to, and no record that the resolution
\* produced joins an endpoint to itself
C35_RealEndpointsOnly ==
  (npc # "input" /\ PoolBearsReference) =>
    /\ \A r \in Range(normResult.wires) : ~IsReferenceLabel(r.from) /\ ~IsReferenceLabel(r.to)
    /\ \A r \in Range(ResolvedList) : r.from # r.to
    /\ \A r \in Range(normResult.wires) \ DirectSegments : r.from # r.to

\* the two halves of wire 24 and a segment from KM45.2 to itself were in the
\* pool: the connection through the references is returned, between real labels
C35_Witness ==
  /\ npc = "normalized" /\ family = "single"
  /\ {<<w.from, w.to>> : w \in Range(rawWires)}
       = {<<"QM102.1", "rimando 108">>, <<"rimando 100", "KM45.2">>, <<"KM45.2", "KM45.2">>}
  /\ \E r \in Range(normResult.wires) : {r.from, r.to} = {"QM102.1", "KM45.2"}

\* panelEndpoints as normalizeWires builds it: from the deduplicated rows
BuiltPanelEndpoints == PanelEndpoints(SanitizedWires(RawPool))

\* C36: when the cross-panel pool is used, every non-reference endpoint of a
\* normalized segment of the target panel is in the set the panel filter uses,
\* and every resolved connection that has such an endpoint and that no direct
\* segment states is in the returned list
C36_PanelSetComplete ==
  (npc # "input" /\ Len(rawCrossWires) > 0) =>
    /\ PanelEndpointSet \subseteq BuiltPanelEndpoints
    /\ \A r \in AddedConnections(DirectSegments, ResolvedConnections) :
         TouchesPanel(PanelEndpointSet, r) =>
           \E x \in Range(normResult.wires) : x.id = r.id /\ {x.from, x.to} = {r.from, r.to}

\* the deduplicated segments without a reference endpoint, in list order
DirectList == SelectSeq(SanitizedWires(RawPool), LAMBDA w : ~HasReferenceEndpoint(w))

RealEnds(w) == {e \in {w.from, w.to} : ~IsReferenceLabel(e)}

\* the labels that are an end of some record of the returned list
ReturnedLabels == {r.from : r \in Range(normResult.wires)} \cup {r.to : r \in Range(normResult.wires)}

\* a reference-bearing segment of the target panel none of whose real ends is in
\* the returned list
LostSegments ==
  {w \in Range(SanitizedWires(RawPool)) :
     /\ w.panel /\ HasReferenceEndpoint(w)
     /\ RealEnds(w) # {} /\ RealEnds(w) \cap ReturnedLabels = {}}

\* C38: every reference-bearing segment of the target panel whose real endpoint is
\* in no record of the returned list has an unresolved-reference warning for its
\* identifier, also when the identifier has resolved pairs from other segments
C38_UnlinkedReferenceWarned ==
  npc # "input" => \A w \in LostSegments : Trim(w.id) \in WarnedIds

\* C39: whatever the pool size, the pool resolves only after every page was
\* dispatched exactly once, or else the run has a warning
C39_PoolSizeBelowOne ==
  ppc \in {"done", "finished"} =>
    \/ index = NPages /\ \A i \in Pages : starts[i] = 1
    \/ Len(warnings) > 0


\* the names of the nodes of the graph under search
BfsNodeNames == IF Len(graphs) = 0 THEN {} ELSE { graphs[1].nodes[i].name : i \in 1..Len(graphs[1].nodes) }

\* the number of edges of the graph under search
BfsEdgeCount == IF Len(graphs) = 0 THEN 0 ELSE Len(graphs[1].edges)

\* the graph under search has an edge from a node to itself
HasSelfLoop == \E i \in 1..Len(graphs[1].edges) : graphs[1].edges[i].from = graphs[1].edges[i].to

\* the graph under search has two edges between the same two nodes
HasDuplicateEdge ==
  \E i, j \in 1..Len(graphs[1].edges) :
    /\ i < j
    /\ {graphs[1].edges[i].from, graphs[1].edges[i].to}
         = {graphs[1].edges[j].from, graphs[1].edges[j].to}

\* C40: on every graph, rings of references, self-loops and duplicate edges included,
\* a search passes each node to visited.add at most once and only nodes of the graph,
\* its queue never holds more entries than the graph has edge ends, and every search
\* and the loop over the starts come to their end
C40_ResolutionTerminates ==
  /\ [](/\ NoRepeat(bfsOrder)
        /\ Range(bfsOrder) \subseteq BfsNodeNames
        /\ Range(bfsOrder) = bfsVisited
        /\ Len(bfsQueue) <= 1 + 2 * BfsEdgeCount)
  /\ [](bpc = "loop" => <>(bpc = "next"))
  /\ <>(bpc = "done")

\* C40 witness: the resolution of the pool of all eight segments has returned, the last
\* search has walked the ring of six references, and the graph has a self-loop and a
\* duplicate edge
C40_Witness ==
  /\ bpc = "done"
  /\ pool = CyclicSegments
  /\ HasSelfLoop /\ HasDuplicateEdge
  /\ {"rimando 108@100", "rimando 110@100", "rimando 100@110", "rimando 108@110",
      "rimando 110@108", "rimando 100@108"} \subseteq Range(bfsOrder)
====
